---- MODULE Spec2Model ----
(***************************************************************************)
(* Chain connector plugin (ChainConnectorPlugin, ChainConnectorStore) of   *)
(* the interoperability example: the newBlock and deleteBlock handlers,    *)
(* the typed store they read and write, the CCU pass (certificate search,  *)
(* inbox update, submission, refresh of the last certificate, cleanup).    *)
(* Every await of a handler is one step, so that handlers started by       *)
(* different events interleave exactly where the JavaScript code can       *)
(* suspend.                                                                *)
(***************************************************************************)
EXTENDS Integers, Sequences, FiniteSets, TLC

(***************************************************************************)
(* Bounds of the model.                                                    *)
(***************************************************************************)
\* highest block height the sending chain reaches
MaxHeight == 3
\* number of block reverts (deleteBlock events) in one run
MaxReverts == 2
\* number of handlers that may be in flight at the same time
MaxHandlers == 2
\* only the first MaxOverlapEvents events of a run may arrive while a handler
\* is in flight
MaxOverlapEvents == 2
\* number of distinct validator sets (validatorsHash values)
MaxValidatorSets == 2
\* number of newBlock and deleteBlock events in a run
MaxEvents == 4
\* number of RPC calls that throw in one run
MaxErrors == 2
\* config.ccuFrequency
CcuFrequency == 2
\* config.maxCCUSize, counted in CCMs that fit into one CCU
MaxCCUSize == 2

VHashes == 1..MaxValidatorSets
Procs == 1..MaxHandlers

(***************************************************************************)
(* Data.                                                                   *)
(***************************************************************************)
\* header.aggregateCommit; present = FALSE stands for a header without one
NoAggregateCommit == [present |-> FALSE, height |-> 0, sig |-> "empty"]

\* the aggregate commit a block at height h may carry: none, or the one of
\* its parent, signed by the parent's validators
AggregateCommitsAt(h) ==
    {NoAggregateCommit} \cup
    (IF h > 1 THEN {[present |-> TRUE, height |-> h - 1, sig |-> "good"]} ELSE {})

\* the events chain_getEvents returns for a block; n is the nonce of the
\* next CCM of the sending chain's outbox
EventListsAt(n) ==
    { <<>>,
      <<[module |-> "interoperability", name |-> "ccmSendSuccess", result |-> "none", nonce |-> n]>> }

\* certificateThreshold of the validator set with hash vh
ThresholdOf(vh) == 2 * vh - 1

\* the validators of the validator set with hash vh
ValidatorsOfSet(vh) == <<[blsKey |-> vh, bftWeight |-> 1]>>

\* the BFT parameters consensus_getBFTParameters returns
BFTParameters(vh) ==
    [validatorsHash |-> vh, certificateThreshold |-> ThresholdOf(vh),
     validators |-> ValidatorsOfSet(vh)]

\* a block of the sending chain: its header and what the RPCs answer for its
\* height; the BFT parameters in force at a height are those the parent's
\* header commits to
BlocksAt(h, n, prevHash) ==
    [height : {h}, validatorsHash : VHashes, aggregateCommit : AggregateCommitsAt(h),
     events : EventListsAt(n), bftHash : {prevHash}]

\* the part of a block header the connector keeps and reads back
HeaderOf(b) == [height |-> b.height, validatorsHash |-> b.validatorsHash]

NoBlock == [height |-> 0, validatorsHash |-> 0, aggregateCommit |-> NoAggregateCommit,
            events |-> <<>>, bftHash |-> 0]

NoLastSentCCM == [set |-> FALSE, height |-> 0, nonce |-> 0]
NoCertificate == [found |-> FALSE, height |-> 0, validatorsHash |-> 0]
\* activeValidatorsUpdate with no keys, no weights and an empty bitmap
EmptyValidatorsUpdate ==
    [blsKeysUpdate |-> <<>>, bftWeightsUpdate |-> <<>>, bftWeightsUpdateBitmap |-> 0]
\* CCU parameters; certHeight = 0 and certHash = 0 stand for certificate = EMPTY_BYTES
NoCCU == [certHeight |-> 0, certHash |-> 0, ccms |-> <<>>, nonce |-> 0, command |-> "none",
          certificateThreshold |-> 0, activeValidatorsUpdate |-> EmptyValidatorsUpdate]
\* no pure function is under study
NoCalc == [fn |-> "none"]

(***************************************************************************)
(* Array helpers with the semantics of the JavaScript ones.                *)
(***************************************************************************)
\* Array.prototype.findIndex on the height field: 0 stands for -1, else 1-based
RECURSIVE FindFrom(_, _, _)
FindFrom(list, height, i) ==
    IF i > Len(list) THEN 0
    ELSE IF list[i].height = height THEN i
    ELSE FindFrom(list, height, i + 1)

FindIndexByHeight(list, height) == FindFrom(list, height, 1)

RECURSIVE FindHashFrom(_, _, _)
FindHashFrom(list, vh, i) ==
    IF i > Len(list) THEN 0
    ELSE IF list[i].validatorsHash = vh THEN i
    ELSE FindHashFrom(list, vh, i + 1)

FindIndexByHash(list, vh) == FindHashFrom(list, vh, 1)

\* list.splice(i - 1, 1) for a 1-based i >= 1
RemoveAt(list, i) == [k \in 1..(Len(list) - 1) |-> IF k < i THEN list[k] ELSE list[k + 1]]

\* list.splice(index, 1) where index is the result of findIndex: JavaScript
\* counts a negative start from the end, so -1 removes the last element
SpliceFound(list, i) ==
    IF Len(list) = 0 THEN list
    ELSE IF i = 0 THEN RemoveAt(list, Len(list))
    ELSE RemoveAt(list, i)

\* Array.prototype.filter on height >= h
RECURSIVE FilterHeightGE(_, _)
FilterHeightGE(list, h) ==
    IF list = <<>> THEN <<>>
    ELSE IF Head(list).height >= h THEN <<Head(list)>> \o FilterHeightGE(Tail(list), h)
    ELSE FilterHeightGE(Tail(list), h)

RECURSIVE FilterThresholdGE(_, _)
FilterThresholdGE(list, h) ==
    IF list = <<>> THEN <<>>
    ELSE IF Head(list).certificateThreshold >= h
         THEN <<Head(list)>> \o FilterThresholdGE(Tail(list), h)
    ELSE FilterThresholdGE(Tail(list), h)

HeightsOf(list) == {list[i].height : i \in 1..Len(list)}
HashesOf(list) == {list[i].validatorsHash : i \in 1..Len(list)}


(***************************************************************************)
(* State.                                                                  *)
(***************************************************************************)
VARIABLES
    \* ChainConnectorStore: the persisted lists and the lastSentCCM record
    blockHeaders, aggregateCommits, validatorsHashPreimage, crossChainMessages,
    lastSentCCM,
    \* ChainConnectorPlugin: _lastCertificate and _sentCCUs
    lastCertificate, sentCCUs,
    \* the handlers in flight: position (the await a handler is suspended on)
    \* and local variables
    hnd,
    \* what the last returned handler was and how it ended
    last,
    \* the sending chain: its current blocks, and the reverts so far
    chain, nReverts,
    \* the receiving chain: last certificate of the sending chain, nonce of
    \* the relayer account, transactions in its pool
    rc,
    \* the RPC calls that have thrown so far
    nErrors,
    \* ChainConnectorPlugin: _saveCCM, and how far unload has come
    saveCCM, unloading,
    \* the pure function under study, its arguments and its result
    calc,
    \* ChainConnectorPlugin: its configured transports and key, how far init
    \* and load have come, and the transport of the receiving chain client
    plugin,
    \* the generator Endpoint: _keypairs, the generator database, the
    \* updateStatus call in flight or just settled, and the history of calls
    generator

storeVars == <<blockHeaders, aggregateCommits, validatorsHashPreimage, crossChainMessages,
               lastSentCCM>>
listVars == <<blockHeaders, aggregateCommits, validatorsHashPreimage, crossChainMessages>>
memVars == <<lastCertificate, sentCCUs>>
envVars == <<chain, nReverts, rc, nErrors>>
plugVars == <<saveCCM, unloading, calc, plugin, generator>>
vars == <<blockHeaders, aggregateCommits, validatorsHashPreimage, crossChainMessages,
          lastSentCCM, lastCertificate, sentCCUs, hnd, last, chain, nReverts, rc, nErrors,
          saveCCM, unloading, calc, plugin, generator>>

\* the persisted store as one value
Snapshot ==
    [blockHeaders |-> blockHeaders, aggregateCommits |-> aggregateCommits,
     validatorsHashPreimage |-> validatorsHashPreimage,
     crossChainMessages |-> crossChainMessages, lastSentCCM |-> lastSentCCM]

NoSnapshot ==
    [blockHeaders |-> <<>>, aggregateCommits |-> <<>>, validatorsHashPreimage |-> <<>>,
     crossChainMessages |-> <<>>, lastSentCCM |-> NoLastSentCCM]

NoLast == [kind |-> "none", blk |-> NoBlock, ok |-> TRUE, pass |-> FALSE, replay |-> FALSE,
           rejected |-> FALSE, snap |-> NoSnapshot]

\* a handler that is not running
Idle ==
    [pc |-> "idle", kind |-> "none", blk |-> NoBlock, replay |-> FALSE,
     blockHeaders |-> <<>>, aggregateCommits |-> <<>>, validatorsHashPreimage |-> <<>>,
     crossChainMessages |-> <<>>,
     certificate |-> NoCertificate, lastSentCCM |-> NoLastSentCCM, ccu |-> NoCCU,
     ok |-> TRUE, pass |-> FALSE, searched |-> FALSE, attempted |-> FALSE, posted |-> FALSE,
     refreshed |-> FALSE, cleaned |-> FALSE,
     snap |-> NoSnapshot, pre |-> NoSnapshot, prev |-> NoLast]

(***************************************************************************)
(* The data of the generator Endpoint and of its updateStatus requests.    *)
(***************************************************************************)
\* number of updateStatus calls in a run
MaxCalls == 3
\* greatest value of height, maxHeightPrevoted and maxHeightGenerated
MaxGenerated == 1

\* the addresses of _generators whose encrypted passphrase is that of the
\* address; one whose passphrase belongs to another address; an address
\* that is not in _generators
GoodAddresses == {1, 2}
MismatchedAddress == 3
UnknownAddress == 4

GeneratedInfos ==
    [height : 0..MaxGenerated, maxHeightPrevoted : 0..MaxGenerated,
     maxHeightGenerated : 0..MaxGenerated]

\* getLastGeneratedInfo throws for an address without a record
NoGeneratedInfo == [height |-> -1, maxHeightPrevoted |-> -1, maxHeightGenerated |-> -1]

\* ctx.params of updateStatus: valid says whether the request passes
\* updateStatusRequestSchema, synced is the answer of consensus.isSynced;
\* a request that fails before its info is looked at comes with zero info
Requests ==
    {r \in [valid : BOOLEAN,
            address : GoodAddresses \cup {MismatchedAddress, UnknownAddress},
            passwordOk : BOOLEAN, enable : BOOLEAN, overwrite : BOOLEAN,
            info : GeneratedInfos, synced : BOOLEAN] :
        (~ r.valid \/ r.address \notin GoodAddresses \/ ~ r.passwordOk)
            => /\ ~ r.overwrite /\ r.synced
               /\ r.info = [height |-> 0, maxHeightPrevoted |-> 0, maxHeightGenerated |-> 0]}

NoRequest ==
    [valid |-> FALSE, address |-> UnknownAddress, passwordOk |-> FALSE, enable |-> FALSE,
     overwrite |-> FALSE, info |-> NoGeneratedInfo, synced |-> FALSE]

NoCall ==
    [pc |-> "idle", req |-> NoRequest, result |-> "none",
     lastGeneratedInfo |-> NoGeneratedInfo, staged |-> FALSE,
     keypairsBefore |-> {}, dbBefore |-> [a \in GoodAddresses |-> NoGeneratedInfo]]

EndpointConstructed ==
    [keypairs |-> {}, db |-> [a \in GoodAddresses |-> NoGeneratedInfo], call |-> NoCall,
     nCalls |-> 0, lastOk |-> [a \in GoodAddresses |-> "none"]]

(***************************************************************************)
(* ChainConnectorPlugin.load: the state when the subscriptions are made.   *)
(* The store is empty, _lastCertificate is the receiving chain's.          *)
(***************************************************************************)
Unstarted(dryRun) ==
    /\ blockHeaders = <<>>
    /\ aggregateCommits = <<>>
    /\ validatorsHashPreimage = <<>>
    /\ crossChainMessages = <<>>
    /\ lastSentCCM = NoLastSentCCM
    /\ lastCertificate = [height |-> 0, validatorsHash |-> 1]
    /\ sentCCUs = <<>>
    /\ hnd = [p \in Procs |-> Idle]
    /\ last = NoLast
    /\ chain = <<>>
    /\ nReverts = 0
    /\ rc = [certificate |-> lastCertificate, nonce |-> 0, pool |-> <<>>]
    /\ nErrors = 0
    /\ saveCCM = dryRun
    /\ unloading = "no"
    /\ generator = EndpointConstructed

\* chain IDs: the network byte and the bytes that tell the chains of a network
\* apart, which are zero for the mainchain
MaxChain == 1
ChainIDs == {<<network, local>> : network \in 0..1, local \in 0..MaxChain}
NoChainID == <<>>

\* getMainchainID: the chain ID with the bytes after the network byte zeroed
GetMainchainID(chainID) == <<chainID[1], 0>>

\* the own chain taken for a sidechain when it is the mainchain
IsOwnChainMainchain(ownChainID) == GetMainchainID(ownChainID) = ownChainID

\* _isReceivingChainIsMainchain as load sets it
IsReceivingChainMainchain(ownChainID) == GetMainchainID(ownChainID) # ownChainID

\* a connector of a sidechain with an IPC path and a key that decrypts, after load
Running ==
    [phase |-> "loaded", ipc |-> TRUE, ws |-> FALSE, key |-> "ok", transport |-> "ipc",
     ownChainID |-> <<0, 1>>, isReceivingChainIsMainchain |-> TRUE]

Constructed(dryRun) == Unstarted(dryRun) /\ plugin = Running

Loaded(dryRun) == Constructed(dryRun) /\ calc = NoCalc

\* the connector as configured by default: CCUs are posted
Init == Loaded(FALSE)

\* the connector with either value of config.saveCCM
InitConfig == \E dryRun \in BOOLEAN : Loaded(dryRun)

\* set the handler's record
Upd(p, rec) == hnd' = [hnd EXCEPT ![p] = rec]

\* a catch block that goes on to submit what the handler holds
CatchThenSubmit(p) ==
    Upd(p, [hnd[p] EXCEPT !.pc = "done", !.ok = FALSE, !.attempted = TRUE])

\* the catch block of _newBlockHandler: log, and the handler returns
Catch(p) == Upd(p, [hnd[p] EXCEPT !.pc = "done", !.ok = FALSE])

AllIdle == \A p \in Procs : hnd[p].pc = "idle"
SomeIdle == \E p \in Procs : hnd[p].pc = "idle"
FreeProc == CHOOSE p \in Procs : hnd[p].pc = "idle" /\ \A q \in Procs : q < p => hnd[q].pc # "idle"

RECURSIVE CountEvents(_)
CountEvents(c) == IF c = <<>> THEN 0 ELSE Len(Head(c).events) + CountEvents(Tail(c))

\* events delivered so far: every revert took one block of the chain away
Delivered == Len(chain) + 2 * nReverts

\* an event may arrive while a handler is in flight
MayOverlap == SomeIdle /\ (AllIdle \/ Delivered < MaxOverlapEvents)

(***************************************************************************)
(* The subscriptions of load: each event calls the async callback, which   *)
(* runs to its first await and leaves a handler in flight.                 *)
(***************************************************************************)
Subscribe(p, kind, b, replay) ==
    Upd(p, [Idle EXCEPT !.pc = IF kind = "newBlock" THEN "nb_getBlockHeaders"
                                ELSE "db_getBlockHeaders",
                        !.kind = kind, !.blk = b, !.replay = replay,
                        !.snap = Snapshot, !.prev = last])

\* the blocks of a chain on which nothing changes: every block sends a CCM,
\* keeps the validators and carries the aggregate commit of its parent
SteadyBlocksAt(h, n, prevHash) ==
    {b \in BlocksAt(h, n, prevHash) :
        b.validatorsHash = prevHash /\ b.events # <<>> /\ (h > 1 => b.aggregateCommit.present)}

\* the blocks that may follow the tip of the sending chain
NextBlocks(steady) ==
    LET prevHash == IF chain = <<>> THEN 1 ELSE chain[Len(chain)].validatorsHash IN
    IF steady THEN SteadyBlocksAt(Len(chain) + 1, CountEvents(chain), prevHash)
    ELSE BlocksAt(Len(chain) + 1, CountEvents(chain), prevHash)

\* chain_newBlock: the sending chain grows by one block
NewBlockEvent(canStart, steady) ==
    /\ canStart
    /\ Len(chain) < MaxHeight
    /\ \E b \in NextBlocks(steady) :
          /\ chain' = Append(chain, b)
          /\ Subscribe(FreeProc, "newBlock", b, FALSE)
    /\ UNCHANGED <<plugVars, storeVars, memVars, last, nReverts, rc, nErrors>>

\* chain_newBlock arrives once more for the block just handled
Redeliver(canStart) ==
    /\ canStart
    /\ last.kind = "newBlock" /\ ~ last.replay
    /\ chain # <<>> /\ last.blk = chain[Len(chain)]
    /\ Subscribe(FreeProc, "newBlock", last.blk, TRUE)
    /\ UNCHANGED <<plugVars, storeVars, memVars, last, envVars>>

\* chain_deleteBlock: the sending chain reverts its tip
DeleteBlockEvent(canStart) ==
    /\ canStart
    /\ Len(chain) > 0
    /\ nReverts < MaxReverts
    /\ chain' = SubSeq(chain, 1, Len(chain) - 1)
    /\ nReverts' = nReverts + 1
    /\ Subscribe(FreeProc, "deleteBlock", chain[Len(chain)], FALSE)
    /\ UNCHANGED <<plugVars, storeVars, memVars, last, rc, nErrors>>

\* the async handler's promise settles
Return(p) ==
    /\ hnd[p].pc = "done"
    /\ last' = [kind |-> hnd[p].kind, blk |-> hnd[p].blk, ok |-> hnd[p].ok,
                pass |-> hnd[p].pass, replay |-> hnd[p].replay,
                rejected |-> hnd[p].attempted /\ ~ hnd[p].posted, snap |-> hnd[p].snap]
    /\ Upd(p, Idle)
    /\ UNCHANGED <<plugVars, storeVars, memVars, envVars>>

(***************************************************************************)
(* _deleteBlockHandler                                                     *)
(***************************************************************************)
DB_getBlockHeaders(p) ==
    /\ hnd[p].pc = "db_getBlockHeaders"
    /\ LET i == FindIndexByHeight(blockHeaders, hnd[p].blk.height) IN
         IF i # 0
         THEN Upd(p, [hnd[p] EXCEPT !.pc = "db_setBlockHeaders",
                                    !.blockHeaders = RemoveAt(blockHeaders, i)])
         ELSE Upd(p, [hnd[p] EXCEPT !.pc = "db_getAggregateCommits"])
    /\ UNCHANGED <<plugVars, storeVars, memVars, last, envVars>>

\* a write that also drops the CCMs of the deleted height
DB_setBlockHeadersAndMessages(p) ==
    /\ hnd[p].pc = "db_setBlockHeaders"
    /\ blockHeaders' = hnd[p].blockHeaders
    /\ crossChainMessages' =
           SelectSeq(crossChainMessages, LAMBDA m : m.height # hnd[p].blk.height)
    /\ Upd(p, [hnd[p] EXCEPT !.pc = "db_getAggregateCommits"])
    /\ UNCHANGED <<plugVars, aggregateCommits, validatorsHashPreimage, lastSentCCM,
                   memVars, last, envVars>>

DB_setBlockHeaders(p) ==
    /\ hnd[p].pc = "db_setBlockHeaders"
    /\ blockHeaders' = hnd[p].blockHeaders
    /\ Upd(p, [hnd[p] EXCEPT !.pc = "db_getAggregateCommits"])
    /\ UNCHANGED <<plugVars, aggregateCommits, validatorsHashPreimage, crossChainMessages, lastSentCCM,
                   memVars, last, envVars>>

DB_getAggregateCommits(p) ==
    /\ hnd[p].pc = "db_getAggregateCommits"
    /\ LET i == FindIndexByHeight(aggregateCommits, hnd[p].blk.height) IN
         IF i # 0
         THEN Upd(p, [hnd[p] EXCEPT !.pc = "db_setAggregateCommits",
                                    !.aggregateCommits = RemoveAt(aggregateCommits, i)])
         ELSE Upd(p, [hnd[p] EXCEPT !.pc = "db_getValidatorsHashPreimage"])
    /\ UNCHANGED <<plugVars, storeVars, memVars, last, envVars>>

DB_setAggregateCommits(p) ==
    /\ hnd[p].pc = "db_setAggregateCommits"
    /\ aggregateCommits' = hnd[p].aggregateCommits
    /\ Upd(p, [hnd[p] EXCEPT !.pc = "db_getValidatorsHashPreimage"])
    /\ UNCHANGED <<plugVars, blockHeaders, validatorsHashPreimage, crossChainMessages, lastSentCCM,
                   memVars, last, envVars>>

DB_getValidatorsHashPreimage(p) ==
    /\ hnd[p].pc = "db_getValidatorsHashPreimage"
    /\ LET i == FindIndexByHash(validatorsHashPreimage, hnd[p].blk.validatorsHash) IN
         IF i # 0
         THEN Upd(p, [hnd[p] EXCEPT !.pc = "db_setValidatorsHashPreimage",
                                    !.validatorsHashPreimage =
                                        RemoveAt(validatorsHashPreimage, i)])
         ELSE Upd(p, [hnd[p] EXCEPT !.pc = "done"])
    /\ UNCHANGED <<plugVars, storeVars, memVars, last, envVars>>

DB_setValidatorsHashPreimage(p) ==
    /\ hnd[p].pc = "db_setValidatorsHashPreimage"
    /\ validatorsHashPreimage' = hnd[p].validatorsHashPreimage
    /\ Upd(p, [hnd[p] EXCEPT !.pc = "done"])
    /\ UNCHANGED <<plugVars, blockHeaders, aggregateCommits, crossChainMessages, lastSentCCM,
                   memVars, last, envVars>>

(***************************************************************************)
(* _saveDataOnNewBlock                                                     *)
(***************************************************************************)
\* what an RPC may do: answer, or throw
RpcOutcomes == IF nErrors < MaxErrors THEN {"ok", "error"} ELSE {"ok"}

Rpc(r) == nErrors' = nErrors + (IF r = "error" THEN 1 ELSE 0)

\* the new header pushed whether or not its height is stored
PushBlockHeader(list, header) == Append(list, header)

\* blockHeaders after the findIndex / overwrite-or-push of the new header
UpsertBlockHeader(list, header) ==
    LET i == FindIndexByHeight(list, header.height) IN
    IF i # 0 THEN [list EXCEPT ![i] = header] ELSE Append(list, header)

IsCcmSendSuccess(e) == e.name = "ccmSendSuccess" /\ e.module = "interoperability"
IsCcmProcessed(e) == e.name = "ccmProcessed" /\ e.module = "interoperability"

\* the ccmInEventsCheck block is left early when neither kind of event is there
HasCcmEvents(events) ==
    /\ Len(events) > 0
    /\ ~ (SelectSeq(events, IsCcmSendSuccess) = <<>> /\ SelectSeq(events, IsCcmProcessed) = <<>>)

\* ccmsFromEvents: the CCMs of the ccmSendSuccess events, then those of the
\* ccmProcessed events whose result is FORWARDED
CcmsFromEvents(events) ==
    LET sent == SelectSeq(events, IsCcmSendSuccess)
        forwarded == SelectSeq(events, LAMBDA e : IsCcmProcessed(e) /\ e.result = "forwarded")
    IN [i \in 1..Len(sent) |-> sent[i].nonce] \o [i \in 1..Len(forwarded) |-> forwarded[i].nonce]

\* crossChainMessages.push({ccms, height, inclusionProof})
PushCrossChainMessages(list, height, ccms) ==
    Append(list, [height |-> height, ccms |-> ccms])

\* validatorsHashPreimage after the findIndex / push of the BFT parameters
PushValidatorsData(list, bft) ==
    IF FindIndexByHash(list, bft.validatorsHash) = 0 THEN Append(list, bft) ELSE list

\* aggregateCommits after the findIndex / overwrite-or-push of header.aggregateCommit
UpsertAggregateCommit(list, ac) ==
    IF ~ ac.present THEN list
    ELSE LET i == FindIndexByHeight(list, ac.height)
             rec == [height |-> ac.height, sig |-> ac.sig]
         IN IF i # 0 THEN [list EXCEPT ![i] = rec] ELSE Append(list, rec)

\* the condition under which _newBlockHandler goes on to the CCU
CadenceHolds(height, certifiedHeight) == CcuFrequency >= height - certifiedHeight

NB_getBlockHeaders(p) ==
    /\ hnd[p].pc = "nb_getBlockHeaders"
    /\ Upd(p, [hnd[p] EXCEPT !.pc = "nb_getEvents",
                               !.blockHeaders =
                                   UpsertBlockHeader(blockHeaders, HeaderOf(hnd[p].blk))])
    /\ UNCHANGED <<plugVars, storeVars, memVars, last, envVars>>

\* chain_getEvents
NB_getEvents(p) ==
    /\ hnd[p].pc = "nb_getEvents"
    /\ \E r \in RpcOutcomes : Rpc(r) /\
          IF r = "error" THEN Catch(p)
          ELSE IF HasCcmEvents(hnd[p].blk.events)
               THEN Upd(p, [hnd[p] EXCEPT !.pc = "nb_getMetadata"])
               ELSE Upd(p, [hnd[p] EXCEPT !.pc = "nb_getValidatorsHashPreimage"])
    /\ UNCHANGED <<plugVars, storeVars, memVars, last, chain, nReverts, rc>>

\* system_getMetadata; the metadata may lack the module or the event schema
NB_getMetadata(p) ==
    /\ hnd[p].pc = "nb_getMetadata"
    /\ \E r \in RpcOutcomes : Rpc(r) /\
          IF r = "error" THEN Catch(p)
          ELSE Upd(p, [hnd[p] EXCEPT !.pc = "nb_prove"])
    /\ UNCHANGED <<plugVars, storeVars, memVars, last, chain, nReverts, rc>>

\* state_prove
NB_prove(p) ==
    /\ hnd[p].pc = "nb_prove"
    /\ \E r \in RpcOutcomes : Rpc(r) /\
          IF r = "error" THEN Catch(p)
          ELSE Upd(p, [hnd[p] EXCEPT !.pc = "nb_getCrossChainMessages"])
    /\ UNCHANGED <<plugVars, storeVars, memVars, last, chain, nReverts, rc>>

NB_getCrossChainMessages(p) ==
    /\ hnd[p].pc = "nb_getCrossChainMessages"
    /\ Upd(p, [hnd[p] EXCEPT !.pc = "nb_setCrossChainMessages",
                               !.crossChainMessages =
                                   PushCrossChainMessages(crossChainMessages, hnd[p].blk.height,
                                                          CcmsFromEvents(hnd[p].blk.events))])
    /\ UNCHANGED <<plugVars, storeVars, memVars, last, envVars>>

NB_setCrossChainMessages(p) ==
    /\ hnd[p].pc = "nb_setCrossChainMessages"
    /\ crossChainMessages' = hnd[p].crossChainMessages
    /\ Upd(p, [hnd[p] EXCEPT !.pc = "nb_getValidatorsHashPreimage"])
    /\ UNCHANGED <<plugVars, blockHeaders, aggregateCommits, validatorsHashPreimage, lastSentCCM,
                   memVars, last, envVars>>

NB_getValidatorsHashPreimage(p) ==
    /\ hnd[p].pc = "nb_getValidatorsHashPreimage"
    /\ Upd(p, [hnd[p] EXCEPT !.pc = "nb_getBFTParameters",
                               !.validatorsHashPreimage = validatorsHashPreimage])
    /\ UNCHANGED <<plugVars, storeVars, memVars, last, envVars>>

\* consensus_getBFTParameters
NB_getBFTParameters(p) ==
    /\ hnd[p].pc = "nb_getBFTParameters"
    /\ \E r \in RpcOutcomes : Rpc(r) /\
          IF r = "error" THEN Catch(p)
          ELSE Upd(p, [hnd[p] EXCEPT !.pc = "nb_getAggregateCommits",
                                     !.validatorsHashPreimage =
                                         PushValidatorsData(hnd[p].validatorsHashPreimage,
                                                            BFTParameters(hnd[p].blk.bftHash))])
    /\ UNCHANGED <<plugVars, storeVars, memVars, last, chain, nReverts, rc>>

NB_getAggregateCommits(p) ==
    /\ hnd[p].pc = "nb_getAggregateCommits"
    /\ Upd(p, [hnd[p] EXCEPT !.pc = "nb_setBlockHeaders",
                               !.aggregateCommits =
                                   UpsertAggregateCommit(aggregateCommits,
                                                         hnd[p].blk.aggregateCommit)])
    /\ UNCHANGED <<plugVars, storeVars, memVars, last, envVars>>

NB_setBlockHeaders(p) ==
    /\ hnd[p].pc = "nb_setBlockHeaders"
    /\ blockHeaders' = hnd[p].blockHeaders
    /\ Upd(p, [hnd[p] EXCEPT !.pc = "nb_setAggregateCommits"])
    /\ UNCHANGED <<plugVars, aggregateCommits, validatorsHashPreimage, crossChainMessages, lastSentCCM,
                   memVars, last, envVars>>

NB_setAggregateCommits(p) ==
    /\ hnd[p].pc = "nb_setAggregateCommits"
    /\ aggregateCommits' = hnd[p].aggregateCommits
    /\ Upd(p, [hnd[p] EXCEPT !.pc = "nb_setValidatorsHashPreimage"])
    /\ UNCHANGED <<plugVars, blockHeaders, validatorsHashPreimage, crossChainMessages, lastSentCCM,
                   memVars, last, envVars>>

\* the last write of _saveDataOnNewBlock, then the cadence test of _newBlockHandler
NB_setValidatorsHashPreimage(p) ==
    /\ hnd[p].pc = "nb_setValidatorsHashPreimage"
    /\ validatorsHashPreimage' = hnd[p].validatorsHashPreimage
    /\ IF CadenceHolds(hnd[p].blk.height, lastCertificate.height)
       THEN Upd(p, [hnd[p] EXCEPT !.pc = "nb_getBFTHeights", !.pass = TRUE])
       ELSE Upd(p, [hnd[p] EXCEPT !.pc = "done"])
    /\ UNCHANGED <<plugVars, blockHeaders, aggregateCommits, crossChainMessages, lastSentCCM,
                   memVars, last, envVars>>

(***************************************************************************)
(* getNextCertificateFromAggregateCommits (certificate_generation): the    *)
(* highest aggregate commit above the last certified height, not above     *)
(* maxHeightCertified, with a signature that verifies under the validators *)
(* of the header at its height.                                            *)
(***************************************************************************)
CandidatesAt(commits, h) ==
    {i \in 1..Len(commits) : commits[i].height = h /\ commits[i].sig # "empty"}

RECURSIVE ScanCommits(_, _, _, _, _)
ScanCommits(headers, commits, validators, h, floor) ==
    IF h <= floor THEN [status |-> "none", certificate |-> NoCertificate]
    ELSE IF CandidatesAt(commits, h) = {}
         THEN ScanCommits(headers, commits, validators, h - 1, floor)
    ELSE LET i == FindIndexByHeight(headers, h) IN
         IF i = 0 THEN [status |-> "throw", certificate |-> NoCertificate]
         ELSE IF FindIndexByHash(validators, headers[i].validatorsHash) = 0
              THEN [status |-> "throw", certificate |-> NoCertificate]
         ELSE IF \E c \in CandidatesAt(commits, h) : commits[c].sig = "good"
              THEN [status |-> "found",
                    certificate |-> [found |-> TRUE, height |-> h,
                                     validatorsHash |-> headers[i].validatorsHash]]
         ELSE ScanCommits(headers, commits, validators, h - 1, floor)

GetCertificateNotBelow(headers, commits, validators, maxHeightCertified, lc) ==
    ScanCommits(headers, commits, validators, maxHeightCertified, lc.height - 1)

GetNextCertificateFromAggregateCommits(headers, commits, validators, maxHeightCertified, lc) ==
    ScanCommits(headers, commits, validators, maxHeightCertified, lc.height)

(***************************************************************************)
(* calculateInboxUpdate / calculateInboxUpdateForPartialUpdate             *)
(* (inbox_update): the CCMs of the records from the last sent CCM up to    *)
(* the certificate height, in (height, index) order, those already sent    *)
(* left out, as many as fit the CCU.                                       *)
(***************************************************************************)
RECURSIVE CcmsAtHeight(_, _)
CcmsAtHeight(list, h) ==
    IF list = <<>> THEN <<>>
    ELSE (IF Head(list).height = h
          THEN [i \in 1..Len(Head(list).ccms) |-> [height |-> h, nonce |-> Head(list).ccms[i]]]
          ELSE <<>>) \o CcmsAtHeight(Tail(list), h)

RECURSIVE GatherCcms(_, _, _)
GatherCcms(list, from, to) ==
    IF from > to THEN <<>>
    ELSE CcmsAtHeight(list, from) \o GatherCcms(list, from + 1, to)

NotYetSent(ccm, lsc) == ~ (ccm.height = lsc.height /\ ccm.nonce <= lsc.nonce)

CalculateInboxUpdate(certifiedHeight, list, lsc, maxSize) ==
    LET pending == SelectSeq(GatherCcms(list, lsc.height, certifiedHeight),
                             LAMBDA c : NotYetSent(c, lsc))
    IN SubSeq(pending, 1, IF Len(pending) < maxSize THEN Len(pending) ELSE maxSize)

(***************************************************************************)
(* The validators update of a CCU: the difference between the validators   *)
(* of C* and those of the new certificate. A validators list is ordered    *)
(* by blsKey.                                                              *)
(***************************************************************************)
\* number of BLS keys, greatest bftWeight
MaxKeys == 3
MaxWeight == 2

\* per BLS key: -1 for a key that is not in the list, else its bftWeight
ValidatorChoices == [1..MaxKeys -> -1..MaxWeight]

RECURSIVE ValidatorsOf(_, _)
ValidatorsOf(choice, k) ==
    IF k = 0 THEN <<>>
    ELSE ValidatorsOf(choice, k - 1) \o
         (IF choice[k] = -1 THEN <<>>
          ELSE <<[blsKey |-> k, bftWeight |-> choice[k]]>>)

KeysOf(validators) == {validators[i].blsKey : i \in 1..Len(validators)}

\* the weight of a key in a list, 0 for a key that is not in it
WeightIn(validators, k) ==
    IF k \in KeysOf(validators)
    THEN validators[CHOOSE i \in 1..Len(validators) : validators[i].blsKey = k].bftWeight
    ELSE 0

\* the keys of a set in lexicographic order
RECURSIVE SortedKeys(_, _)
SortedKeys(keys, k) ==
    IF k = 0 THEN <<>>
    ELSE SortedKeys(keys, k - 1) \o (IF k \in keys THEN <<k>> ELSE <<>>)

\* the new weights of the first n keys of the union whose weight changes
RECURSIVE WeightsUpdate(_, _, _, _)
WeightsUpdate(union, prev, new, n) ==
    IF n = 0 THEN <<>>
    ELSE WeightsUpdate(union, prev, new, n - 1) \o
         (IF WeightIn(new, union[n]) # WeightIn(prev, union[n])
          THEN <<WeightIn(new, union[n])>> ELSE <<>>)

\* the bitmap as a number: bit i - 1 is set iff the weight of union[i] changes
RECURSIVE WeightsUpdateBitmap(_, _, _, _)
WeightsUpdateBitmap(union, prev, new, n) ==
    IF n = 0 THEN 0
    ELSE WeightsUpdateBitmap(union, prev, new, n - 1) +
         (IF WeightIn(new, union[n]) # WeightIn(prev, union[n]) THEN 2 ^ (n - 1) ELSE 0)

CalculateUpdateOverNewKeys(prev, new) ==
    LET union == SortedKeys(KeysOf(new), MaxKeys) IN
    [blsKeysUpdate |-> SortedKeys(KeysOf(new) \ KeysOf(prev), MaxKeys),
     bftWeightsUpdate |-> WeightsUpdate(union, prev, new, Len(union)),
     bftWeightsUpdateBitmap |-> WeightsUpdateBitmap(union, prev, new, Len(union))]

CalculateActiveValidatorsUpdate(prev, new) ==
    LET union == SortedKeys(KeysOf(prev) \cup KeysOf(new), MaxKeys) IN
    [blsKeysUpdate |-> SortedKeys(KeysOf(new) \ KeysOf(prev), MaxKeys),
     bftWeightsUpdate |-> WeightsUpdate(union, prev, new, Len(union)),
     bftWeightsUpdateBitmap |-> WeightsUpdateBitmap(union, prev, new, Len(union))]

\* the update _calculateCCUParams puts into the CCU: the empty one when the
\* validators hash of the certificate is that of C*
ActiveValidatorsUpdateOf(prev, new) ==
    IF prev = new THEN EmptyValidatorsUpdate
    ELSE CalculateActiveValidatorsUpdate(prev, new)

(***************************************************************************)
(* _newBlockHandler after the save: certificate search, CCU parameters     *)
(***************************************************************************)
\* consensus_getBFTHeights, then the certificate search of _findNextCertificate
NB_getBFTHeights(p) ==
    /\ hnd[p].pc = "nb_getBFTHeights"
    /\ \E r \in RpcOutcomes, maxHeightCertified \in 0..MaxHeight : Rpc(r) /\
          IF r = "error" THEN Catch(p)
          ELSE LET res == GetNextCertificateFromAggregateCommits(
                              hnd[p].blockHeaders, hnd[p].aggregateCommits,
                              hnd[p].validatorsHashPreimage, maxHeightCertified,
                              lastCertificate)
               IN IF res.status = "throw" THEN Catch(p)
                  ELSE IF res.status = "none"
                       THEN Upd(p, [hnd[p] EXCEPT !.pc = "pu_getCrossChainMessages",
                                                  !.searched = TRUE])
                  ELSE Upd(p, [hnd[p] EXCEPT !.pc = "cp_getLastSentCCM",
                                             !.searched = TRUE,
                                             !.certificate = res.certificate])
    /\ UNCHANGED <<plugVars, storeVars, memVars, last, chain, nReverts, rc>>

\* no new certificate: the partial update
PU_getCrossChainMessages(p) ==
    /\ hnd[p].pc = "pu_getCrossChainMessages"
    /\ Upd(p, [hnd[p] EXCEPT !.pc = "pu_getLastSentCCM",
                               !.crossChainMessages = crossChainMessages])
    /\ UNCHANGED <<plugVars, storeVars, memVars, last, envVars>>

\* lastSentCCM ?? {nonce: 0, height: lastCertificate.height}
PartialDefaultLastSentCCM(lc) == [set |-> TRUE, height |-> lc.height, nonce |-> 0]

\* lastSentCCM ?? {height: 1, nonce: -1}
FullDefaultLastSentCCM == [set |-> TRUE, height |-> 1, nonce |-> -1]

\* a partial update that carries the certificateThreshold of the validators of C*
PartialCCUWithThreshold(lc, list, lsc) ==
    [certHeight |-> 0, certHash |-> 0, nonce |-> 0, command |-> "none",
     certificateThreshold |-> ThresholdOf(lc.validatorsHash),
     activeValidatorsUpdate |-> EmptyValidatorsUpdate,
     ccms |-> CalculateInboxUpdate(lc.height, list, lsc, MaxCCUSize)]

\* the parameters of the CCU sent when no certificate was found
PartialCCU(lc, list, lsc) ==
    [certHeight |-> 0, certHash |-> 0, nonce |-> 0, command |-> "none",
     certificateThreshold |-> 0,
     activeValidatorsUpdate |-> EmptyValidatorsUpdate,
     ccms |-> CalculateInboxUpdate(lc.height, list, lsc, MaxCCUSize)]

\* calculateActiveValidatorsUpdate(certificate, validatorsHashPreimage,
\* lastCertificate): the difference of the two validators lists, and the
\* threshold of the certificate's validators if it is not that of C*'s
ValidatorsUpdateResult(certificate, validators, lc) ==
    LET new == validators[FindIndexByHash(validators, certificate.validatorsHash)]
        prev == validators[FindIndexByHash(validators, lc.validatorsHash)]
    IN [activeValidatorsUpdate |->
            CalculateActiveValidatorsUpdate(prev.validators, new.validators),
        certificateThreshold |->
            IF new.certificateThreshold # prev.certificateThreshold
            THEN new.certificateThreshold ELSE 0]

\* activeValidatorsUpdate and certificateThreshold of _calculateCCUParams: empty
\* and 0 unless the validatorsHash of the certificate is not that of C*
CCUValidatorsParams(certificate, validators, lc) ==
    IF lc.validatorsHash # certificate.validatorsHash
    THEN ValidatorsUpdateResult(certificate, validators, lc)
    ELSE [activeValidatorsUpdate |-> EmptyValidatorsUpdate, certificateThreshold |-> 0]

\* the parameters _calculateCCUParams returns
FullCCU(certificate, validators, lc, list, lsc) ==
    LET params == CCUValidatorsParams(certificate, validators, lc) IN
    [certHeight |-> certificate.height, certHash |-> certificate.validatorsHash, nonce |-> 0,
     command |-> "none",
     certificateThreshold |-> params.certificateThreshold,
     activeValidatorsUpdate |-> params.activeValidatorsUpdate,
     ccms |-> CalculateInboxUpdate(certificate.height, list, lsc, MaxCCUSize)]

PU_getLastSentCCM(p) ==
    /\ hnd[p].pc = "pu_getLastSentCCM"
    /\ LET lsc == IF lastSentCCM.set THEN lastSentCCM
                  ELSE PartialDefaultLastSentCCM(lastCertificate)
       IN Upd(p, [hnd[p] EXCEPT !.pc = "pu_calculateInboxUpdate",
                                  !.lastSentCCM = lsc,
                                  !.ccu = PartialCCU(lastCertificate,
                                                     hnd[p].crossChainMessages, lsc)])
    /\ UNCHANGED <<plugVars, storeVars, memVars, last, envVars>>

\* _submitCCUs derives the public key from _privateKey before its first
\* await; without a key that call throws
HasPrivateKey == plugin.key = "ok"

PU_calculateInboxUpdate(p) ==
    /\ hnd[p].pc = "pu_calculateInboxUpdate"
    /\ IF HasPrivateKey THEN Upd(p, [hnd[p] EXCEPT !.pc = "su_getAuthAccount"])
       ELSE Catch(p)
    /\ UNCHANGED <<plugVars, storeVars, memVars, last, envVars>>

\* _calculateCCUParams
CP_getLastSentCCM(p) ==
    /\ hnd[p].pc = "cp_getLastSentCCM"
    /\ Upd(p, [hnd[p] EXCEPT !.pc = "cp_getCrossChainMessages",
                               !.lastSentCCM = lastSentCCM])
    /\ UNCHANGED <<plugVars, storeVars, memVars, last, envVars>>

\* calculateActiveValidatorsUpdate needs the validators of both certificates
ValidatorsUpdateThrows(certificate, validators, lc) ==
    /\ lc.validatorsHash # certificate.validatorsHash
    /\ \/ FindIndexByHash(validators, certificate.validatorsHash) = 0
       \/ FindIndexByHash(validators, lc.validatorsHash) = 0

CP_getCrossChainMessages(p) ==
    /\ hnd[p].pc = "cp_getCrossChainMessages"
    /\ IF \/ FindIndexByHeight(hnd[p].blockHeaders, hnd[p].certificate.height) = 0
          \/ ValidatorsUpdateThrows(hnd[p].certificate, hnd[p].validatorsHashPreimage,
                                    lastCertificate)
       THEN Catch(p)
       ELSE LET lsc == IF hnd[p].lastSentCCM.set THEN hnd[p].lastSentCCM
                       ELSE FullDefaultLastSentCCM
            IN Upd(p, [hnd[p] EXCEPT !.pc = "cp_calculateInboxUpdate",
                                       !.crossChainMessages = crossChainMessages,
                                       !.lastSentCCM = lsc,
                                       !.ccu = FullCCU(hnd[p].certificate,
                                                       hnd[p].validatorsHashPreimage,
                                                       lastCertificate,
                                                       crossChainMessages, lsc)])
    /\ UNCHANGED <<plugVars, storeVars, memVars, last, envVars>>

CP_calculateInboxUpdate(p) ==
    /\ hnd[p].pc = "cp_calculateInboxUpdate"
    /\ IF HasPrivateKey THEN Upd(p, [hnd[p] EXCEPT !.pc = "su_getAuthAccount"])
       ELSE Catch(p)
    /\ UNCHANGED <<plugVars, storeVars, memVars, last, envVars>>

(***************************************************************************)
(* _submitCCUs, for the one CCU the handler passes                         *)
(***************************************************************************)
\* a transaction that the post would take: it goes no further than _sentCCUs
PostsAnyway(dryRun) == FALSE

\* if (this._saveCCM): the transaction is kept and txpool_postTransaction
\* is not invoked
SkipsPost(dryRun) == dryRun

\* activeTargetCommand of _submitCCUs
TargetCommand(isReceivingChainIsMainchain) ==
    IF isReceivingChainIsMainchain THEN "submitMainchainCCU" ELSE "submitSidechainCCU"

\* the transaction built from the CCU parameters and the account nonce
Transaction(ccu, nonce) ==
    [ccu EXCEPT !.nonce = nonce,
                !.command = TargetCommand(plugin.isReceivingChainIsMainchain)]

\* a submission that stores a lastSentCCM below the one stored before
LastSentCCMLowered(lsc, tx) ==
    [set |-> TRUE, height |-> IF lsc.set THEN lsc.height - 1 ELSE 0, nonce |-> 0]

\* the stored lastSentCCM once tx is in _sentCCUs: the loop of _submitCCUs
\* pushes the transaction and logs, it does not call setLastSentCCM
LastSentCCMAfterSubmit(lsc, tx) == lsc

\* auth_getAuthAccount on the receiving chain
SU_getAuthAccount(p) ==
    /\ hnd[p].pc = "su_getAuthAccount"
    /\ \E r \in RpcOutcomes : Rpc(r) /\
          IF r = "error" THEN Catch(p)
          ELSE Upd(p, [hnd[p] EXCEPT !.pc = "su_getNodeInfo",
                                     !.ccu = Transaction(hnd[p].ccu, rc.nonce)])
    /\ UNCHANGED <<plugVars, storeVars, memVars, last, chain, nReverts, rc>>

\* system_getNodeInfo, then the transaction is signed
SU_getNodeInfo(p) ==
    /\ hnd[p].pc = "su_getNodeInfo"
    /\ \E r \in RpcOutcomes : Rpc(r) /\
          IF r = "error" THEN Catch(p) /\ UNCHANGED <<sentCCUs, lastSentCCM>>
          ELSE IF SkipsPost(saveCCM)
               THEN /\ sentCCUs' = Append(sentCCUs, hnd[p].ccu)
                    /\ lastSentCCM' = LastSentCCMAfterSubmit(lastSentCCM, hnd[p].ccu)
                    /\ Upd(p, [hnd[p] EXCEPT !.pc = "nb_getChainAccount"])
               ELSE /\ Upd(p, [hnd[p] EXCEPT !.pc = "su_postTransaction"])
                    /\ UNCHANGED <<sentCCUs, lastSentCCM>>
    /\ UNCHANGED <<plugVars, listVars, lastCertificate, last, chain, nReverts, rc>>

\* txpool_postTransaction: the receiving chain takes the transaction into its
\* pool, or rejects it and the call throws
SU_postTransaction(p) ==
    /\ hnd[p].pc = "su_postTransaction"
    /\ \E r \in RpcOutcomes : Rpc(r) /\
          IF r = "error"
          THEN /\ Upd(p, [hnd[p] EXCEPT !.pc = "done", !.ok = FALSE, !.attempted = TRUE])
               /\ UNCHANGED <<sentCCUs, rc, lastSentCCM>>
          ELSE /\ rc' = [rc EXCEPT !.pool = Append(rc.pool, hnd[p].ccu)]
               /\ sentCCUs' = Append(sentCCUs, hnd[p].ccu)
               /\ lastSentCCM' = LastSentCCMAfterSubmit(lastSentCCM, hnd[p].ccu)
               /\ Upd(p, [hnd[p] EXCEPT !.pc = "nb_getChainAccount", !.attempted = TRUE,
                                          !.posted = TRUE])
    /\ UNCHANGED <<plugVars, listVars, lastCertificate, last, chain, nReverts>>

\* interoperability_getChainAccount: _lastCertificate becomes the receiving
\* chain's, then _cleanup is entered
NB_getChainAccount(p) ==
    /\ hnd[p].pc = "nb_getChainAccount"
    /\ \E r \in RpcOutcomes : Rpc(r) /\
          IF r = "error"
          THEN /\ Upd(p, [hnd[p] EXCEPT !.pc = "done", !.ok = FALSE, !.refreshed = TRUE])
               /\ UNCHANGED lastCertificate
          ELSE /\ lastCertificate' = rc.certificate
               /\ Upd(p, [hnd[p] EXCEPT !.pc = "cl_getCrossChainMessages",
                                          !.refreshed = TRUE])
    /\ UNCHANGED <<plugVars, storeVars, sentCCUs, last, chain, nReverts, rc>>

(***************************************************************************)
(* _cleanup                                                                *)
(***************************************************************************)
CL_getCrossChainMessages(p) ==
    /\ hnd[p].pc = "cl_getCrossChainMessages"
    /\ Upd(p, [hnd[p] EXCEPT
                  !.pc = "cl_setCrossChainMessages",
                  !.pre = Snapshot,
                  !.crossChainMessages =
                      SpliceFound(crossChainMessages,
                                  FindIndexByHeight(crossChainMessages,
                                                    lastCertificate.height))])
    /\ UNCHANGED <<plugVars, storeVars, memVars, last, envVars>>

CL_setCrossChainMessages(p) ==
    /\ hnd[p].pc = "cl_setCrossChainMessages"
    /\ crossChainMessages' = hnd[p].crossChainMessages
    /\ Upd(p, [hnd[p] EXCEPT !.pc = "cl_getBlockHeaders"])
    /\ UNCHANGED <<plugVars, blockHeaders, aggregateCommits, validatorsHashPreimage, lastSentCCM,
                   memVars, last, envVars>>

CL_getBlockHeaders(p) ==
    /\ hnd[p].pc = "cl_getBlockHeaders"
    /\ Upd(p, [hnd[p] EXCEPT !.pc = "cl_setBlockHeaders",
                               !.blockHeaders =
                                   FilterHeightGE(blockHeaders, lastCertificate.height)])
    /\ UNCHANGED <<plugVars, storeVars, memVars, last, envVars>>

CL_setBlockHeaders(p) ==
    /\ hnd[p].pc = "cl_setBlockHeaders"
    /\ blockHeaders' = hnd[p].blockHeaders
    /\ Upd(p, [hnd[p] EXCEPT !.pc = "cl_getAggregateCommits"])
    /\ UNCHANGED <<plugVars, aggregateCommits, validatorsHashPreimage, crossChainMessages, lastSentCCM,
                   memVars, last, envVars>>

CL_getAggregateCommits(p) ==
    /\ hnd[p].pc = "cl_getAggregateCommits"
    /\ Upd(p, [hnd[p] EXCEPT !.pc = "cl_setAggregateCommits",
                               !.aggregateCommits =
                                   FilterHeightGE(aggregateCommits, lastCertificate.height)])
    /\ UNCHANGED <<plugVars, storeVars, memVars, last, envVars>>

CL_setAggregateCommits(p) ==
    /\ hnd[p].pc = "cl_setAggregateCommits"
    /\ aggregateCommits' = hnd[p].aggregateCommits
    /\ Upd(p, [hnd[p] EXCEPT !.pc = "cl_getValidatorsHashPreimage"])
    /\ UNCHANGED <<plugVars, blockHeaders, validatorsHashPreimage, crossChainMessages, lastSentCCM,
                   memVars, last, envVars>>

CL_getValidatorsHashPreimage(p) ==
    /\ hnd[p].pc = "cl_getValidatorsHashPreimage"
    /\ Upd(p, [hnd[p] EXCEPT !.pc = "cl_setValidatorsHashPreimage",
                               !.validatorsHashPreimage =
                                   FilterThresholdGE(validatorsHashPreimage,
                                                     lastCertificate.height)])
    /\ UNCHANGED <<plugVars, storeVars, memVars, last, envVars>>

CL_setValidatorsHashPreimage(p) ==
    /\ hnd[p].pc = "cl_setValidatorsHashPreimage"
    /\ validatorsHashPreimage' = hnd[p].validatorsHashPreimage
    /\ Upd(p, [hnd[p] EXCEPT !.pc = "done", !.cleaned = TRUE])
    /\ UNCHANGED <<plugVars, blockHeaders, aggregateCommits, crossChainMessages, lastSentCCM,
                   memVars, last, envVars>>

(***************************************************************************)
(* The receiving chain executes the transaction at the head of its pool:   *)
(* a CCU with the account's nonce is applied, and its certificate, if it   *)
(* is newer, becomes the chain account's last certificate.                 *)
(***************************************************************************)
RcExecute ==
    /\ rc.pool # <<>>
    /\ LET tx == Head(rc.pool) IN
         rc' = [pool |-> Tail(rc.pool),
                nonce |-> IF tx.nonce = rc.nonce THEN rc.nonce + 1 ELSE rc.nonce,
                certificate |->
                    IF tx.nonce = rc.nonce /\ tx.certHeight > rc.certificate.height
                    THEN [height |-> tx.certHeight, validatorsHash |-> tx.certHash]
                    ELSE rc.certificate]
    /\ UNCHANGED <<plugVars, storeVars, memVars, hnd, last, chain, nReverts, nErrors>>

(***************************************************************************)
(* Specifications.                                                         *)
(***************************************************************************)
\* one step of a deleteBlock handler in flight
StepDeleteBlock(p) ==
    \/ DB_getBlockHeaders(p) \/ DB_setBlockHeaders(p)
    \/ DB_getAggregateCommits(p) \/ DB_setAggregateCommits(p)
    \/ DB_getValidatorsHashPreimage(p) \/ DB_setValidatorsHashPreimage(p)

\* one step of a newBlock handler in flight, or the return of a handler
StepNewBlock(p) ==
    \/ NB_getBlockHeaders(p) \/ NB_getEvents(p) \/ NB_getMetadata(p) \/ NB_prove(p)
    \/ NB_getCrossChainMessages(p) \/ NB_setCrossChainMessages(p)
    \/ NB_getValidatorsHashPreimage(p) \/ NB_getBFTParameters(p)
    \/ NB_getAggregateCommits(p) \/ NB_setBlockHeaders(p)
    \/ NB_setAggregateCommits(p) \/ NB_setValidatorsHashPreimage(p)
    \/ NB_getBFTHeights(p)
    \/ PU_getCrossChainMessages(p) \/ PU_getLastSentCCM(p) \/ PU_calculateInboxUpdate(p)
    \/ CP_getLastSentCCM(p) \/ CP_getCrossChainMessages(p) \/ CP_calculateInboxUpdate(p)
    \/ SU_getAuthAccount(p) \/ SU_getNodeInfo(p) \/ SU_postTransaction(p)
    \/ NB_getChainAccount(p)
    \/ CL_getCrossChainMessages(p) \/ CL_setCrossChainMessages(p)
    \/ CL_getBlockHeaders(p) \/ CL_setBlockHeaders(p)
    \/ CL_getAggregateCommits(p) \/ CL_setAggregateCommits(p)
    \/ CL_getValidatorsHashPreimage(p) \/ CL_setValidatorsHashPreimage(p)
    \/ Return(p)

Step(p) == StepDeleteBlock(p) \/ StepNewBlock(p)

\* the connector as it runs: an event starts its handler when it arrives,
\* whether or not the handler of an earlier event has returned
Next ==
    \/ NewBlockEvent(MayOverlap /\ Delivered < MaxEvents, TRUE)
    \/ DeleteBlockEvent(MayOverlap /\ Delivered < MaxEvents)
    \/ \E p \in Procs : Step(p)
    \/ RcExecute

Spec == Init /\ [][Next]_vars

\* the runs in which every event arrives after the previous handler returned
NextSerial ==
    \/ NewBlockEvent(AllIdle /\ Delivered < MaxEvents, FALSE)
    \/ DeleteBlockEvent(AllIdle /\ Delivered < MaxEvents)
    \/ \E p \in Procs : Step(p)
    \/ RcExecute

SpecSerial == Init /\ [][NextSerial]_vars

\* longer runs of that kind, on a steady chain
NextSteady ==
    \/ NewBlockEvent(AllIdle /\ Delivered < MaxEvents + 1, TRUE)
    \/ DeleteBlockEvent(AllIdle /\ Delivered < MaxEvents + 1)
    \/ \E p \in Procs : Step(p)
    \/ RcExecute

SpecSteady == Init /\ [][NextSteady]_vars

\* the same runs, with config.saveCCM either way
SpecConfig == InitConfig /\ [][NextSteady]_vars

\* the runs of that kind in which a newBlock event may be delivered twice
NextReplay ==
    \/ NewBlockEvent(AllIdle /\ Delivered < MaxEvents, TRUE)
    \/ Redeliver(AllIdle)
    \/ \E p \in Procs : StepNewBlock(p)
    \/ RcExecute

SpecReplay == Init /\ [][NextReplay]_vars

(***************************************************************************)
(* unload: disconnect the receiving client, disconnect the sending client, *)
(* close the store. It does not unsubscribe and does not wait for a        *)
(* handler.                                                                *)
(***************************************************************************)
\* the awaits of a newBlock handler that are RPCs to the sending chain
SendingChainRpcs ==
    {"nb_getEvents", "nb_getMetadata", "nb_prove", "nb_getBFTParameters", "nb_getBFTHeights"}

\* the awaits of a newBlock handler that are RPCs to the receiving chain
ReceivingChainRpcs ==
    {"su_getAuthAccount", "su_getNodeInfo", "su_postTransaction", "nb_getChainAccount"}

\* the client or the store that the operation a handler is suspended on
\* goes to is still open
Available(pc) ==
    IF pc \in {"idle", "done"} THEN TRUE
    ELSE IF pc \in ReceivingChainRpcs THEN unloading = "no"
    ELSE IF pc \in SendingChainRpcs THEN unloading \in {"no", "receivingDisconnected"}
    ELSE unloading # "closed"

\* the sending client delivers events until it is disconnected
Subscribed == unloading \in {"no", "receivingDisconnected"}

\* await this._receivingChainClient.disconnect()
UN_disconnectReceiving ==
    /\ unloading = "no"
    /\ unloading' = "receivingDisconnected"
    /\ UNCHANGED <<storeVars, memVars, hnd, last, envVars, saveCCM, calc, plugin, generator>>

\* await this._sendingChainClient.disconnect()
UN_disconnectSending ==
    /\ unloading = "receivingDisconnected"
    /\ unloading' = "sendingDisconnected"
    /\ UNCHANGED <<storeVars, memVars, hnd, last, envVars, saveCCM, calc, plugin, generator>>

\* this._chainConnectorStore.close()
UN_close ==
    /\ unloading = "sendingDisconnected"
    /\ unloading' = "closed"
    /\ UNCHANGED <<storeVars, memVars, hnd, last, envVars, saveCCM, calc, plugin, generator>>

\* a handler in flight goes on to an operation on a disconnected client or
\* on the closed store: the operation throws and the handler ends
OperationAfterClose(p) ==
    /\ ~ Available(hnd[p].pc)
    /\ Catch(p)
    /\ UNCHANGED <<plugVars, storeVars, memVars, last, envVars>>

\* the runs, on a steady chain, in which the plugin is unloaded at some point
NextUnload ==
    \/ NewBlockEvent(Subscribed /\ AllIdle /\ Delivered < MaxEvents, TRUE)
    \/ DeleteBlockEvent(Subscribed /\ AllIdle /\ Delivered < MaxEvents)
    \/ \E p \in Procs : Available(hnd[p].pc) /\ Step(p)
    \/ \E p \in Procs : OperationAfterClose(p)
    \/ RcExecute
    \/ UN_disconnectReceiving
    \/ UN_disconnectSending
    \/ UN_close

SpecUnload == Init /\ [][NextUnload]_vars

(***************************************************************************)
(* init and load: the key is decrypted if a password is configured, the    *)
(* store is opened, the receiving chain client is created over IPC or WS,  *)
(* the chain accounts are read and the two subscriptions are made.         *)
(***************************************************************************)
\* the transport of load: IPC if its path is configured, else WS if its URL
\* is, else none (load throws)
TransportAlwaysWs(ipc, ws) == IF ipc THEN "ipc" ELSE "ws"

ReceivingTransport(ipc, ws) == IF ipc THEN "ipc" ELSE IF ws THEN "ws" ELSE "none"

\* the key material of the configuration: password and encrypted key that
\* decrypts, no password, a password without an encrypted key, a password
\* that does not decrypt the key
KeyConfigs == {"ok", "noPassword", "noEncryptedKey", "wrongPassword"}

InitLifecycle ==
    /\ Unstarted(FALSE)
    /\ calc = NoCalc
    /\ \E ipc \in BOOLEAN, ws \in BOOLEAN, key \in KeyConfigs :
          plugin = [phase |-> "constructed", ipc |-> ipc, ws |-> ws, key |-> key,
                    transport |-> "none", ownChainID |-> NoChainID,
                    isReceivingChainIsMainchain |-> FALSE]

\* init: parseEncryptedMessage and decryptMessageWithPassword run only with
\* a password
PL_init ==
    /\ plugin.phase = "constructed"
    /\ plugin' = [plugin EXCEPT !.phase = IF plugin.key \in {"noEncryptedKey", "wrongPassword"}
                                          THEN "initFailed" ELSE "initialized"]
    /\ UNCHANGED <<storeVars, memVars, hnd, last, envVars, saveCCM, unloading, calc, generator>>

\* load: getDBInstance, then the choice of the transport
PL_getDBInstance ==
    /\ plugin.phase = "initialized"
    /\ LET t == ReceivingTransport(plugin.ipc, plugin.ws) IN
       plugin' = [plugin EXCEPT !.phase = IF t = "none" THEN "loadFailed" ELSE "createClient",
                                !.transport = t]
    /\ UNCHANGED <<storeVars, memVars, hnd, last, envVars, saveCCM, unloading, calc, generator>>

\* createIPCClient or createWSClient
PL_createClient ==
    /\ plugin.phase = "createClient"
    /\ plugin' = [plugin EXCEPT !.phase = "getOwnChainAccount"]
    /\ UNCHANGED <<storeVars, memVars, hnd, last, envVars, saveCCM, unloading, calc, generator>>

\* interoperability_getOwnChainAccount
PL_getOwnChainAccount ==
    /\ plugin.phase = "getOwnChainAccount"
    /\ \E r \in RpcOutcomes, chainID \in ChainIDs : Rpc(r) /\
          IF r = "error" THEN plugin' = [plugin EXCEPT !.phase = "loadFailed"]
          ELSE plugin' = [plugin EXCEPT
                   !.phase = "getChainAccount",
                   !.ownChainID = chainID,
                   !.isReceivingChainIsMainchain = IsReceivingChainMainchain(chainID)]
    /\ UNCHANGED <<storeVars, memVars, hnd, last, chain, nReverts, rc, saveCCM, unloading, calc, generator>>

\* interoperability_getChainAccount, then the two subscriptions
PL_getChainAccount ==
    /\ plugin.phase = "getChainAccount"
    /\ \E r \in RpcOutcomes : Rpc(r) /\
          IF r = "error"
          THEN plugin' = [plugin EXCEPT !.phase = "loadFailed"] /\ UNCHANGED lastCertificate
          ELSE plugin' = [plugin EXCEPT !.phase = "loaded"] /\ lastCertificate' = rc.certificate
    /\ UNCHANGED <<storeVars, sentCCUs, hnd, last, chain, nReverts, rc, saveCCM, unloading, calc, generator>>

\* the runs of a connector from its construction, on a steady chain
NextLifecycle ==
    \/ PL_init
    \/ PL_getDBInstance
    \/ PL_createClient
    \/ PL_getOwnChainAccount
    \/ PL_getChainAccount
    \/ NewBlockEvent(plugin.phase = "loaded" /\ AllIdle /\ Delivered < MaxEvents, TRUE)
    \/ DeleteBlockEvent(plugin.phase = "loaded" /\ AllIdle /\ Delivered < MaxEvents)
    \/ \E p \in Procs : Step(p)
    \/ RcExecute

SpecLifecycle == InitLifecycle /\ [][NextLifecycle]_vars

(***************************************************************************)
(* The certificate selector on its own: any stored headers, aggregate      *)
(* commits and validators data, any maxHeightCertified and C*.             *)
(***************************************************************************)
\* greatest height of the stored records the selector is tried on
MaxSelectorHeight == 3

\* per height: 0 for no stored header, else the header's validatorsHash
HeaderChoices == [1..MaxSelectorHeight -> 0..MaxValidatorSets]

\* per height: no stored aggregate commit, or one whose certificateSignature
\* is empty, does not verify ("bad") or verifies ("good")
CommitChoices == [1..MaxSelectorHeight -> {"none", "empty", "bad", "good"}]

RECURSIVE HeadersFrom(_, _)
HeadersFrom(choice, h) ==
    IF h = 0 THEN <<>>
    ELSE HeadersFrom(choice, h - 1) \o
         (IF choice[h] = 0 THEN <<>>
          ELSE <<[height |-> h, validatorsHash |-> choice[h]]>>)

RECURSIVE CommitsFrom(_, _)
CommitsFrom(choice, h) ==
    IF h = 0 THEN <<>>
    ELSE CommitsFrom(choice, h - 1) \o
         (IF choice[h] = "none" THEN <<>>
          ELSE <<[present |-> TRUE, height |-> h, sig |-> choice[h]]>>)

RECURSIVE ValidatorsFrom(_, _)
ValidatorsFrom(hashes, vh) ==
    IF vh = 0 THEN <<>>
    ELSE ValidatorsFrom(hashes, vh - 1) \o
         (IF vh \in hashes THEN <<BFTParameters(vh)>> ELSE <<>>)

InitSelector ==
    /\ Constructed(FALSE)
    /\ \E hc \in HeaderChoices, cc \in CommitChoices, vs \in SUBSET VHashes,
          mhc \in 0..MaxSelectorHeight, lch \in 0..(MaxSelectorHeight - 1) :
          calc = [fn |-> "selector",
                  headers |-> HeadersFrom(hc, MaxSelectorHeight),
                  commits |-> CommitsFrom(cc, MaxSelectorHeight),
                  validators |-> ValidatorsFrom(vs, MaxValidatorSets),
                  maxHeightCertified |-> mhc,
                  lc |-> [height |-> lch, validatorsHash |-> 1],
                  done |-> FALSE,
                  out |-> [status |-> "none", certificate |-> NoCertificate]]

\* the call of _findNextCertificate once consensus_getBFTHeights has answered
FindNextCertificate ==
    /\ calc.fn = "selector" /\ ~ calc.done
    /\ calc' = [calc EXCEPT !.done = TRUE,
                            !.out = GetNextCertificateFromAggregateCommits(
                                        calc.headers, calc.commits, calc.validators,
                                        calc.maxHeightCertified, calc.lc)]
    /\ UNCHANGED <<storeVars, memVars, hnd, last, envVars, saveCCM, unloading, plugin, generator>>

SpecSelector == InitSelector /\ [][FindNextCertificate]_vars

(***************************************************************************)
(* calculateActiveValidatorsUpdate (active_validators_update) on its own,  *)
(* and the application of an update to the validators of C* as the         *)
(* receiving chain does it. A validators list is ordered by blsKey.        *)
(***************************************************************************)

\* the validators after the update: a key whose bit is set takes the next
\* weight of bftWeightsUpdate and is removed if that weight is 0, any other
\* key keeps its weight
RECURSIVE ApplyUpTo(_, _, _, _, _)
ApplyUpTo(union, prev, update, n, used) ==
    IF n > Len(union) THEN <<>>
    ELSE LET set == (update.bftWeightsUpdateBitmap \div (2 ^ (n - 1))) % 2 = 1
             w == IF set THEN update.bftWeightsUpdate[used + 1]
                  ELSE WeightIn(prev, union[n])
         IN (IF set /\ w = 0 THEN <<>> ELSE <<[blsKey |-> union[n], bftWeight |-> w]>>) \o
            ApplyUpTo(union, prev, update, n + 1, IF set THEN used + 1 ELSE used)

ApplyActiveValidatorsUpdate(prev, update) ==
    LET keys == KeysOf(prev) \cup {update.blsKeysUpdate[i] : i \in 1..Len(update.blsKeysUpdate)}
    IN ApplyUpTo(SortedKeys(keys, MaxKeys), prev, update, 1, 0)

InitValidatorsUpdate ==
    /\ Constructed(FALSE)
    /\ \E pc \in ValidatorChoices, nc \in ValidatorChoices :
          calc = [fn |-> "validatorsUpdate",
                  prev |-> ValidatorsOf(pc, MaxKeys),
                  new |-> ValidatorsOf(nc, MaxKeys),
                  done |-> FALSE,
                  update |-> EmptyValidatorsUpdate,
                  applied |-> <<>>]

\* the validators update of _calculateCCUParams, then its application
CalculateValidatorsUpdate ==
    /\ calc.fn = "validatorsUpdate" /\ ~ calc.done
    /\ LET update == ActiveValidatorsUpdateOf(calc.prev, calc.new) IN
       calc' = [calc EXCEPT !.done = TRUE,
                            !.update = update,
                            !.applied = ApplyActiveValidatorsUpdate(calc.prev, update)]
    /\ UNCHANGED <<storeVars, memVars, hnd, last, envVars, saveCCM, unloading, plugin, generator>>

SpecValidatorsUpdate == InitValidatorsUpdate /\ [][CalculateValidatorsUpdate]_vars

(***************************************************************************)
(* The size of an assembled CCU: the inbox update is built from the        *)
(* certificate, the pending CCMs and maxCCUSize, and _calculateCCUParams   *)
(* then encodes it together with the certificate and the validators        *)
(* update. Sizes are in bytes, scaled down.                                *)
(***************************************************************************)
\* number of pending CCMs; greatest size of a CCM, of the encoded
\* certificate and of the encoded validators update; greatest maxCCUSize
MaxPending == 3
MaxBytes == 2
MaxBudget == 6

\* the sizes of the pending CCMs, in their order
CcmSizes == UNION {[1..n -> 1..MaxBytes] : n \in 0..MaxPending}

RECURSIVE SumBytes(_)
SumBytes(sizes) == IF sizes = <<>> THEN 0 ELSE Head(sizes) + SumBytes(Tail(sizes))

\* CCMs are appended one by one while the size stays within the budget
RECURSIVE TakeWhileFits(_, _, _)
TakeWhileFits(sizes, used, maxSize) ==
    IF sizes = <<>> THEN <<>>
    ELSE IF used + Head(sizes) > maxSize THEN <<>>
    ELSE <<Head(sizes)>> \o TakeWhileFits(Tail(sizes), used + Head(sizes), maxSize)

\* calculateInboxUpdate(certificate, crossChainMessages, db, lastSentCCM,
\* maxCCUSize): what it is given to count is the certificate and the CCMs
InboxUpdateWithin(certificateBytes, sizes, maxSize) ==
    TakeWhileFits(sizes, certificateBytes, maxSize)

\* codec.encode(ccuParamsSchema, {sendingChainID, activeValidatorsUpdate,
\* certificate, certificateThreshold, inboxUpdate}), the fixed part left out
EncodedCCUBytes(certificateBytes, updateBytes, included) ==
    certificateBytes + updateBytes + SumBytes(included)

\* certificateBytes = 0 stands for the partial update, which has no
\* certificate and the empty validators update
InitCCUSize ==
    /\ Constructed(FALSE)
    /\ \E sizes \in CcmSizes, cb \in 0..MaxBytes, ub \in 0..MaxBytes, mx \in 1..MaxBudget :
          /\ cb = 0 => ub = 0
          /\ calc = [fn |-> "ccuSize", pending |-> sizes, certificateBytes |-> cb,
                     updateBytes |-> ub, maxCCUSize |-> mx, done |-> FALSE,
                     included |-> <<>>, encoded |-> 0]

\* _calculateCCUParams, or the partial update of _newBlockHandler
AssembleCCU ==
    /\ calc.fn = "ccuSize" /\ ~ calc.done
    /\ LET included == InboxUpdateWithin(calc.certificateBytes, calc.pending, calc.maxCCUSize)
       IN calc' = [calc EXCEPT !.done = TRUE,
                               !.included = included,
                               !.encoded = EncodedCCUBytes(calc.certificateBytes,
                                                           calc.updateBytes, included)]
    /\ UNCHANGED <<storeVars, memVars, hnd, last, envVars, saveCCM, unloading, plugin, generator>>

SpecCCUSize == InitCCUSize /\ [][AssembleCCU]_vars

(***************************************************************************)
(* activeValidatorsUpdate and certificateThreshold of _calculateCCUParams   *)
(* on their own: C*, the certificate and the stored validators data are     *)
(* the inputs.                                                              *)
(***************************************************************************)
\* the validators a validators data record may hold
SetChoices ==
    {<<[blsKey |-> 1, bftWeight |-> 1]>>,
     <<[blsKey |-> 1, bftWeight |-> 1], [blsKey |-> 2, bftWeight |-> 1]>>,
     <<[blsKey |-> 2, bftWeight |-> MaxWeight]>>}

\* the stored validators data: one record per stored hash, and two records
\* with different hashes differ in their validators or their threshold
StoredValidatorsData(stored, content) ==
    LET rec(h) == [validatorsHash |-> h, certificateThreshold |-> content[h].threshold,
                   validators |-> content[h].validators]
    IN SelectSeq([h \in VHashes |-> rec(h)], LAMBDA r : r.validatorsHash \in stored)

NoCCUValidatorsParams ==
    [activeValidatorsUpdate |-> EmptyValidatorsUpdate, certificateThreshold |-> 0]

\* getActiveValidatorsDiff(current, new): the validators of the new list whose
\* weight is not the one they have in the current list, then those of the
\* current list that are not in the new one, with weight 0
GetActiveValidatorsDiff(current, new) ==
    SelectSeq(new, LAMBDA v : WeightIn(current, v.blsKey) # v.bftWeight) \o
    [i \in 1..Len(SelectSeq(current, LAMBDA v : v.blsKey \notin KeysOf(new))) |->
        [blsKey |-> SelectSeq(current, LAMBDA v : v.blsKey \notin KeysOf(new))[i].blsKey,
         bftWeight |-> 0]]

\* activeValidatorsUpdate and certificateThreshold of calculateCCUParams of the
\* older connector, for a certificate that passed _validateCertificate: the
\* threshold starts as the argument newCertificateThreshold and is set to 0
\* only where the hashes differ and the two stored thresholds are equal
OlderCCUValidatorsParams(certificate, validators, lc, newCertificateThreshold) ==
    IF lc.validatorsHash # certificate.validatorsHash
    THEN LET new == validators[FindIndexByHash(validators, certificate.validatorsHash)]
             prev == validators[FindIndexByHash(validators, lc.validatorsHash)]
         IN [activeValidatorsUpdate |-> GetActiveValidatorsDiff(prev.validators, new.validators),
             certificateThreshold |->
                 IF new.certificateThreshold = prev.certificateThreshold
                 THEN 0 ELSE newCertificateThreshold]
    ELSE [activeValidatorsUpdate |-> <<>>, certificateThreshold |-> newCertificateThreshold]

InitCCUParams ==
    /\ Constructed(FALSE)
    /\ \E lcHash \in VHashes, certHash \in VHashes, stored \in SUBSET VHashes,
          content \in [VHashes -> [threshold : 1..MaxWeight, validators : SetChoices]],
          newCertificateThreshold \in 1..MaxWeight :
          /\ \A g, h \in VHashes : g # h => content[g] # content[h]
          /\ newCertificateThreshold = content[certHash].threshold
          /\ calc = [fn |-> "ccuParams",
                     lastCertificate |-> [height |-> 0, validatorsHash |-> lcHash],
                     certificate |-> [found |-> TRUE, height |-> 1, validatorsHash |-> certHash],
                     validatorsHashPreimage |-> StoredValidatorsData(stored, content),
                     done |-> FALSE, thrown |-> FALSE,
                     params |-> NoCCUValidatorsParams,
                     newCertificateThreshold |-> newCertificateThreshold,
                     olderDone |-> FALSE, olderThrown |-> FALSE,
                     olderParams |-> [activeValidatorsUpdate |-> <<>>,
                                      certificateThreshold |-> 0]]

\* lines 527-548 of _calculateCCUParams; calculateActiveValidatorsUpdate throws
\* when the validators of one of the two certificates are not stored
CalculateCCUValidatorsParams ==
    /\ calc.fn = "ccuParams" /\ ~ calc.done
    /\ IF ValidatorsUpdateThrows(calc.certificate, calc.validatorsHashPreimage,
                                 calc.lastCertificate)
       THEN calc' = [calc EXCEPT !.done = TRUE, !.thrown = TRUE]
       ELSE calc' = [calc EXCEPT !.done = TRUE,
                                 !.params = CCUValidatorsParams(calc.certificate,
                                                                calc.validatorsHashPreimage,
                                                                calc.lastCertificate)]
    /\ UNCHANGED <<storeVars, memVars, hnd, last, envVars, saveCCM, unloading, plugin, generator>>

\* lines 1052-1123 of calculateCCUParams of the older connector, called with the
\* threshold of the certificate's validators as newCertificateThreshold
OlderCalculateCCUParams ==
    /\ calc.fn = "ccuParams" /\ ~ calc.olderDone
    /\ IF ValidatorsUpdateThrows(calc.certificate, calc.validatorsHashPreimage,
                                 calc.lastCertificate)
       THEN calc' = [calc EXCEPT !.olderDone = TRUE, !.olderThrown = TRUE]
       ELSE calc' = [calc EXCEPT
                   !.olderDone = TRUE,
                   !.olderParams = OlderCCUValidatorsParams(
                       calc.certificate, calc.validatorsHashPreimage, calc.lastCertificate,
                       calc.newCertificateThreshold)]
    /\ UNCHANGED <<storeVars, memVars, hnd, last, envVars, saveCCM, unloading, plugin, generator>>

NextCCUParams == CalculateCCUValidatorsParams \/ OlderCalculateCCUParams

SpecCCUParams == InitCCUParams /\ [][NextCCUParams]_vars

(***************************************************************************)
(* The validators data _saveDataOnNewBlock keeps from the answer of        *)
(* consensus_getBFTParameters.                                             *)
(***************************************************************************)
\* the validators of an answer: distinct BLS keys in any order
ValidatorLists ==
    {v \in UNION {[1..n -> [blsKey : 1..MaxKeys, bftWeight : 1..MaxWeight]] : n \in 0..MaxKeys} :
        \A i, j \in 1..Len(v) : i # j => v[i].blsKey # v[j].blsKey}

\* computeValidatorsHash: the hash of the validators in blsKey order and of
\* the threshold, here that pair itself
ComputeValidatorsHash(validators, certificateThreshold) ==
    <<[i \in 1..Len(validators) |->
          LET k == SortedKeys(KeysOf(validators), MaxKeys)[i]
          IN [blsKey |-> k, bftWeight |-> WeightIn(validators, k)]],
      certificateThreshold>>

\* an answer of the node: its validatorsHash is the hash of its content
InitValidatorsData ==
    /\ Constructed(FALSE)
    /\ \E v \in ValidatorLists, t \in 1..MaxWeight :
          calc = [fn |-> "validatorsData",
                  bftParameters |-> [validatorsHash |-> ComputeValidatorsHash(v, t),
                                     certificateThreshold |-> t, validators |-> v],
                  done |-> FALSE,
                  validatorsHashPreimage |-> <<>>]

\* the findIndex and push of _saveDataOnNewBlock
SaveValidatorsData ==
    /\ calc.fn = "validatorsData" /\ ~ calc.done
    /\ calc' = [calc EXCEPT !.done = TRUE,
                            !.validatorsHashPreimage =
                                PushValidatorsData(calc.validatorsHashPreimage,
                                                   calc.bftParameters)]
    /\ UNCHANGED <<storeVars, memVars, hnd, last, envVars, saveCCM, unloading, plugin, generator>>

SpecValidatorsData == InitValidatorsData /\ [][SaveValidatorsData]_vars

(***************************************************************************)
(* The generator Endpoint (framework/src/node/generator/endpoint.ts):      *)
(* updateStatus enables or disables block generation for an address.       *)
(***************************************************************************)
IsEqualGeneratedInfo(a, b) ==
    /\ a.height = b.height
    /\ a.maxHeightPrevoted = b.maxHeightPrevoted
    /\ a.maxHeightGenerated = b.maxHeightGenerated

IsZeroValueGeneratedInfo(a) ==
    a.height = 0 /\ a.maxHeightPrevoted = 0 /\ a.maxHeightGenerated = 0

\* the two tests made when overwrite is not true
AdmitsWithoutRecord(req, lastGeneratedInfo) ==
    req.overwrite \/ lastGeneratedInfo = NoGeneratedInfo
                  \/ IsEqualGeneratedInfo(req.info, lastGeneratedInfo)

MatchesLastGenerated(req, lastGeneratedInfo) ==
    \/ req.overwrite
    \/ /\ lastGeneratedInfo # NoGeneratedInfo => IsEqualGeneratedInfo(req.info, lastGeneratedInfo)
       /\ lastGeneratedInfo = NoGeneratedInfo => IsZeroValueGeneratedInfo(req.info)

\* the condition under which setLastGeneratedInfo is called
WritesOnlyFirstInfo(req, lastGeneratedInfo) == lastGeneratedInfo = NoGeneratedInfo

WritesLastGenerated(req, lastGeneratedInfo) ==
    \/ lastGeneratedInfo = NoGeneratedInfo
    \/ /\ req.overwrite /\ lastGeneratedInfo # NoGeneratedInfo
       /\ ~ IsEqualGeneratedInfo(req.info, lastGeneratedInfo)

\* this._keypairs.delete(address)
KeypairsKept(keypairs, address) == keypairs

KeypairsWithout(keypairs, address) == keypairs \ {address}

Settle(call, result) == [call EXCEPT !.pc = "done", !.result = result]

\* updateStatus up to its first await: validation, the generator of the
\* address, the passphrase, the keypair, disabling, the sync test
US_updateStatus ==
    /\ generator.call.pc \in {"idle", "done"}
    /\ generator.nCalls < MaxCalls
    /\ \E req \in Requests :
          LET call == [NoCall EXCEPT !.req = req, !.keypairsBefore = generator.keypairs,
                                     !.dbBefore = generator.db]
          IN IF \/ ~ req.valid
                \/ req.address = UnknownAddress
                \/ ~ req.passwordOk
                \/ req.address = MismatchedAddress
             THEN generator' = [generator EXCEPT !.call = Settle(call, "rejected"),
                                                 !.nCalls = @ + 1]
             ELSE IF ~ req.enable
             THEN generator' = [generator EXCEPT
                                   !.keypairs = KeypairsWithout(@, req.address),
                                   !.call = Settle(call, "ok"),
                                   !.nCalls = @ + 1,
                                   !.lastOk[req.address] = "disabled"]
             ELSE IF ~ req.synced
             THEN generator' = [generator EXCEPT !.call = Settle(call, "rejected"),
                                                 !.nCalls = @ + 1]
             ELSE generator' = [generator EXCEPT
                                   !.call = [call EXCEPT !.pc = "getLastGeneratedInfo"],
                                   !.nCalls = @ + 1]
    /\ UNCHANGED <<storeVars, memVars, hnd, last, envVars, saveCCM, unloading, calc, plugin>>

\* getLastGeneratedInfo, then the tests against the request
US_getLastGeneratedInfo ==
    /\ generator.call.pc = "getLastGeneratedInfo"
    /\ LET req == generator.call.req
           lastGeneratedInfo == generator.db[req.address]
           call == [generator.call EXCEPT !.lastGeneratedInfo = lastGeneratedInfo]
       IN IF ~ MatchesLastGenerated(req, lastGeneratedInfo)
          THEN generator' = [generator EXCEPT !.call = Settle(call, "rejected")]
          ELSE IF WritesLastGenerated(req, lastGeneratedInfo)
          THEN generator' = [generator EXCEPT
                                !.call = [call EXCEPT !.pc = "setLastGeneratedInfo"]]
          ELSE generator' = [generator EXCEPT !.call = [call EXCEPT !.pc = "write"]]
    /\ UNCHANGED <<storeVars, memVars, hnd, last, envVars, saveCCM, unloading, calc, plugin>>

\* setLastGeneratedInfo puts the request's values into the GeneratorStore
US_setLastGeneratedInfo ==
    /\ generator.call.pc = "setLastGeneratedInfo"
    /\ generator' = [generator EXCEPT !.call = [@ EXCEPT !.pc = "write", !.staged = TRUE]]
    /\ UNCHANGED <<storeVars, memVars, hnd, last, envVars, saveCCM, unloading, calc, plugin>>

\* batch.write, then the keypair is set
US_write ==
    /\ generator.call.pc = "write"
    /\ LET req == generator.call.req IN
       generator' = [generator EXCEPT
                        !.db[req.address] = IF generator.call.staged THEN req.info ELSE @,
                        !.keypairs = @ \cup {req.address},
                        !.call = Settle(@, "ok"),
                        !.lastOk[req.address] = "enabled"]
    /\ UNCHANGED <<storeVars, memVars, hnd, last, envVars, saveCCM, unloading, calc, plugin>>

\* updateStatus calls, one after the other
NextGenerator ==
    \/ US_updateStatus
    \/ US_getLastGeneratedInfo
    \/ US_setLastGeneratedInfo
    \/ US_write

SpecGenerator == Init /\ [][NextGenerator]_vars

(***************************************************************************)
(* The CCMs _saveDataOnNewBlock gathers from the events of a block, and    *)
(* the record it writes for them, on their own.                            *)
(***************************************************************************)
\* number of events of a block
MaxBlockEvents == 3

\* the kinds of event chain_getEvents may return
EventChoices ==
    {[module |-> "interoperability", name |-> "ccmSendSuccess", result |-> "none"],
     [module |-> "interoperability", name |-> "ccmProcessed", result |-> "forwarded"],
     [module |-> "interoperability", name |-> "ccmProcessed", result |-> "applied"],
     [module |-> "interoperability", name |-> "chainAccountUpdated", result |-> "none"],
     [module |-> "token", name |-> "ccmSendSuccess", result |-> "none"]}

\* the events of a block; the CCM of the i-th event is named i
BlockEvents(kinds) ==
    [i \in 1..Len(kinds) |->
        [module |-> kinds[i].module, name |-> kinds[i].name,
         result |-> kinds[i].result, nonce |-> i]]

InitSaveCcms ==
    /\ Constructed(FALSE)
    /\ \E n \in 0..MaxBlockEvents : \E kinds \in [1..n -> EventChoices] :
          calc = [fn |-> "saveCcms", height |-> 1, events |-> BlockEvents(kinds),
                  done |-> FALSE, crossChainMessages |-> <<>>]

\* lines 352-449 of _saveDataOnNewBlock, every RPC call answering
SaveCcmsOnNewBlock ==
    /\ calc.fn = "saveCcms" /\ ~ calc.done
    /\ calc' = [calc EXCEPT
           !.done = TRUE,
           !.crossChainMessages =
               IF HasCcmEvents(calc.events)
               THEN PushCrossChainMessages(calc.crossChainMessages, calc.height,
                                           CcmsFromEvents(calc.events))
               ELSE calc.crossChainMessages]
    /\ UNCHANGED <<storeVars, memVars, hnd, last, envVars, saveCCM, unloading, plugin, generator>>

SpecSaveCcms == InitSaveCcms /\ [][SaveCcmsOnNewBlock]_vars

(***************************************************************************)
(* Interleaved handlers on a chain whose first block may change the        *)
(* validators; every block sends a CCM and carries its parent's commit.    *)
(***************************************************************************)
\* number of events in such a run
MaxMixedEvents == 4

\* the blocks of a chain whose first block may change the validators; every
\* block sends a CCM and carries the aggregate commit of its parent
ReshufflingBlocks ==
    {b \in NextBlocks(FALSE) :
        /\ b.events # <<>>
        /\ b.height > 1 => (b.aggregateCommit.present /\ b.validatorsHash = b.bftHash)}

\* chain_newBlock on such a chain
NewReshufflingBlockEvent(canStart) ==
    /\ canStart
    /\ Len(chain) < MaxHeight
    /\ \E b \in ReshufflingBlocks :
          /\ chain' = Append(chain, b)
          /\ Subscribe(FreeProc, "newBlock", b, FALSE)
    /\ UNCHANGED <<plugVars, storeVars, memVars, last, nReverts, rc, nErrors>>

NextMixed ==
    \/ NewReshufflingBlockEvent(MayOverlap /\ Delivered < MaxMixedEvents)
    \/ DeleteBlockEvent(MayOverlap /\ Delivered < MaxMixedEvents)
    \/ \E p \in Procs : Step(p)
    \/ RcExecute

SpecMixed == Init /\ [][NextMixed]_vars

(***************************************************************************)
(* _validateCertificate and _verifyLiveness of the older connector, on any *)
(* chain account, certificate, header and stored validators data.  The     *)
(* answer of interoperability_isLive and of the BLS verification are       *)
(* inputs.                                                                 *)
(***************************************************************************)
\* LIVENESS_LIMIT of the SDK, in the unit of the timestamps below
LivenessLimit == 4
MaxTimestamp == 3
ChainStatuses == {"REGISTERED", "ACTIVE", "TERMINATED"}

NoLivenessResult == [checked |-> FALSE, status |-> FALSE, isLive |-> FALSE]

\* the result object _validateCertificate starts from
FailedValidation ==
    [status |-> FALSE, message |-> "Certificate validation failed.",
     hasValidBLSWeightedAggSig |-> FALSE, livenessValidationResult |-> NoLivenessResult]

InitValidateCertificate ==
    /\ Constructed(FALSE)
    /\ \E chainStatus \in ChainStatuses,
          certificateHeight \in 0..MaxHeight, lastCertifiedHeight \in 0..MaxHeight,
          certificateTimestamp \in 0..MaxTimestamp, blockTimestamp \in 0..MaxTimestamp,
          headerHash \in VHashes, stored \in SUBSET VHashes, signatureVerifies \in BOOLEAN :
          calc = [fn |-> "validateCertificate", pc |-> "validateCertificate",
                  chainStatus |-> chainStatus,
                  certificateHeight |-> certificateHeight,
                  lastCertifiedHeight |-> lastCertifiedHeight,
                  certificateTimestamp |-> certificateTimestamp,
                  blockTimestamp |-> blockTimestamp,
                  headerHash |-> headerHash, stored |-> stored,
                  signatureVerifies |-> signatureVerifies,
                  result |-> FailedValidation]

\* lines 1166-1183: the checks before the first await
VC_validateCertificate ==
    /\ calc.fn = "validateCertificate" /\ calc.pc = "validateCertificate"
    /\ IF calc.chainStatus = "TERMINATED"
       THEN calc' = [calc EXCEPT !.pc = "done",
                                 !.result.message = "Sending chain is terminated."]
       ELSE IF calc.certificateHeight <= calc.lastCertifiedHeight
       THEN calc' = [calc EXCEPT
                !.pc = "done",
                !.result.message = "Certificate height is higher than last certified height."]
       ELSE calc' = [calc EXCEPT !.pc = "verifyLiveness"]
    /\ UNCHANGED <<storeVars, memVars, hnd, last, envVars, saveCCM, unloading, plugin, generator>>

\* _verifyLiveness with the answer of interoperability_isLive
VerifyLiveness(isLive, certificateTimestamp, blockTimestamp) ==
    [checked |-> TRUE, isLive |-> isLive,
     status |-> isLive /\ 2 * (blockTimestamp - certificateTimestamp) < LivenessLimit]

\* lines 1185-1202: the liveness check and the answer for an ACTIVE chain
VC_verifyLiveness ==
    /\ calc.fn = "validateCertificate" /\ calc.pc = "verifyLiveness"
    /\ \E isLive \in BOOLEAN :
          LET liveness == VerifyLiveness(isLive, calc.certificateTimestamp, calc.blockTimestamp)
              checked == [calc EXCEPT !.result.livenessValidationResult = liveness]
          IN IF ~ liveness.status
             THEN calc' = [checked EXCEPT !.pc = "done",
                                          !.result.message = "Liveness validation failed."]
             ELSE IF calc.chainStatus = "ACTIVE"
             THEN calc' = [checked EXCEPT !.pc = "done", !.result.status = TRUE]
             ELSE calc' = [checked EXCEPT !.pc = "getValidatorsHashPreImage"]
    /\ UNCHANGED <<storeVars, memVars, hnd, last, envVars, saveCCM, unloading, plugin, generator>>

\* lines 1204-1237: the validators of the header and the signature check
VC_getValidatorsHashPreImage ==
    /\ calc.fn = "validateCertificate" /\ calc.pc = "getValidatorsHashPreImage"
    /\ IF calc.headerHash \notin calc.stored
       THEN calc' = [calc EXCEPT !.pc = "done",
                                 !.result.message = "Block validators are not valid."]
       ELSE IF calc.signatureVerifies
       THEN calc' = [calc EXCEPT !.pc = "done",
                                 !.result.hasValidBLSWeightedAggSig = TRUE,
                                 !.result.status = FALSE]
       ELSE calc' = [calc EXCEPT
                !.pc = "done",
                !.result.message = "Weighted aggregate signature is not valid."]
    /\ UNCHANGED <<storeVars, memVars, hnd, last, envVars, saveCCM, unloading, plugin, generator>>

NextValidateCertificate ==
    \/ VC_validateCertificate
    \/ VC_verifyLiveness
    \/ VC_getValidatorsHashPreImage

SpecValidateCertificate == InitValidateCertificate /\ [][NextValidateCertificate]_vars

(***************************************************************************)
(* Properties.                                                             *)
(***************************************************************************)
\* a handler that has started and has not finished its work
InFlight(p) == hnd[p].pc \notin {"idle", "done"}

\* a newBlock handler that has finished its work
Finished(p, kind) == hnd[p].kind = kind /\ hnd[p].pc = "done"

\* C1: the newBlock and deleteBlock handlers never overlap: at any time at
\* most one handler has started and not yet finished
C1_HandlersNeverOverlap == Cardinality({p \in Procs : InFlight(p)}) <= 1

\* C2: after a successful save, a newBlock handler goes on to the CCU pass
\* (certificate search first) if and only if header.height - C*.height is at
\* least ccuFrequency; with a smaller gap it searches and submits nothing
C2_PassIffGapReachesFrequency ==
    \A p \in Procs :
        hnd[p].kind = "newBlock" =>
            LET gap == hnd[p].blk.height - lastCertificate.height IN
            /\ hnd[p].pc = "nb_getBFTHeights" => gap >= CcuFrequency
            /\ (hnd[p].pc = "done" /\ hnd[p].ok /\ ~ hnd[p].pass) => gap < CcuFrequency

\* C3: a newBlock event handled a second time right after the first, both
\* times without an error and without a CCU pass, leaves the stored block
\* headers, aggregate commits, validators data and CCMs as the first
\* handling left them
C3_ReplayIsIdempotent ==
    \A p \in Procs :
        (/\ Finished(p, "newBlock") /\ hnd[p].replay
         /\ hnd[p].ok /\ ~ hnd[p].pass
         /\ hnd[p].prev.ok /\ ~ hnd[p].prev.pass)
        => Snapshot = hnd[p].snap

\* C4: when a newBlock handler has finished without an error, every stored
\* CCM record has a stored block header of its height
C4_EveryCcmRecordHasItsHeader ==
    \A p \in Procs :
        (Finished(p, "newBlock") /\ hnd[p].ok)
        => HeightsOf(crossChainMessages) \subseteq HeightsOf(blockHeaders)

\* C5: when the events arrive in height order and every handler has
\* returned, the stored block headers have pairwise different heights, none
\* below C*.height, and no height between two stored ones is missing
C5_HeadersContiguousNoDuplicates ==
    AllIdle =>
        LET hs == HeightsOf(blockHeaders) IN
        /\ Cardinality(hs) = Len(blockHeaders)
        /\ \A h \in hs : h >= lastCertificate.height
        /\ \A a \in hs, b \in hs : \A h \in a..b : h \in hs

\* C6: when cleanup has run with C*.height = h0, no stored block header,
\* aggregate commit or CCM record has a height below h0
C6_CleanupLeavesNothingBelowCertified ==
    \A p \in Procs :
        (Finished(p, "newBlock") /\ hnd[p].cleaned)
        => \A h \in HeightsOf(blockHeaders) \cup HeightsOf(aggregateCommits)
                    \cup HeightsOf(crossChainMessages) :
              h >= lastCertificate.height

\* C7: when cleanup has run, the validators data in the store are those
\* that were there before cleanup and whose validatorsHash a retained block
\* header or C* refers to
C7_CleanupKeepsReferencedValidators ==
    \A p \in Procs :
        (Finished(p, "newBlock") /\ hnd[p].cleaned)
        => HashesOf(validatorsHashPreimage) =
              {vh \in HashesOf(hnd[p].pre.validatorsHashPreimage) :
                  vh \in HashesOf(blockHeaders) \/ vh = lastCertificate.validatorsHash}

\* C8: deleteBlock(header) right after a newBlock(header) that ended without
\* an error and without a CCU pass leaves the stored block headers, aggregate
\* commits and validators data as they were before that newBlock
C8_RollbackRestoresStore ==
    \A p \in Procs :
        (/\ Finished(p, "deleteBlock")
         /\ hnd[p].prev.kind = "newBlock" /\ hnd[p].prev.blk = hnd[p].blk
         /\ hnd[p].prev.ok /\ ~ hnd[p].prev.pass)
        => /\ blockHeaders = hnd[p].prev.snap.blockHeaders
           /\ aggregateCommits = hnd[p].prev.snap.aggregateCommits
           /\ validatorsHashPreimage = hnd[p].prev.snap.validatorsHashPreimage

\* C9: when a newBlock handler has finished after the receiving chain took
\* its CCU, and the CCU carried at least one CCM, the stored lastSentCCM is
\* the (height, nonce) of the last CCM of that CCU
C9_LastSentCCMIsLastIncluded ==
    \A p \in Procs :
        (/\ Finished(p, "newBlock") /\ hnd[p].ok /\ hnd[p].posted
         /\ Len(hnd[p].ccu.ccms) >= 1)
        => LET ccm == hnd[p].ccu.ccms[Len(hnd[p].ccu.ccms)] IN
           lastSentCCM = [set |-> TRUE, height |-> ccm.height, nonce |-> ccm.nonce]

\* lexicographic order on (height, nonce); no stored record is below any
LexLeq(a, b) ==
    \/ ~ a.set
    \/ b.set /\ (a.height < b.height \/ (a.height = b.height /\ a.nonce <= b.nonce))

\* C10: no step of the connector lowers the stored lastSentCCM in the
\* lexicographic order on (height, nonce): not a submission, not a newBlock
\* or deleteBlock handler, not cleanup
C10_LastSentCCMNeverDecreases == [][LexLeq(lastSentCCM, lastSentCCM')]_vars

\* two submissions have been made one after the other
C10_TwoSubmissionsMade == Len(sentCCUs) >= 2 /\ AllIdle

\* C11: after every CCU submission attempt of a newBlock pass, whether the
\* post succeeded or was rejected, the connector has re-read the last
\* certificate from the receiving chain when the handler returns
C11_CertificateRereadAfterEveryAttempt ==
    \A p \in Procs :
        (Finished(p, "newBlock") /\ hnd[p].attempted) => hnd[p].refreshed

\* C12: when an RPC of the sending chain fails in a newBlock handler
\* (chain_getEvents, system_getMetadata, state_prove,
\* consensus_getBFTParameters, consensus_getBFTHeights), the store the
\* handler leaves is the store it found
C12_FailedRpcLeavesStoreUntouched ==
    [][\A p \in Procs :
          (/\ hnd[p].pc \in SendingChainRpcs
           /\ hnd'[p].pc = "done"
           /\ nErrors' = nErrors + 1)
          => Snapshot' = hnd[p].snap]_vars

\* C13: when txpool_postTransaction rejects a CCU, lastSentCCM stays as it
\* was, the transaction is not appended to the sent CCUs and no cleanup runs
\* in that pass; and the next newBlock that meets the cadence rule (its
\* height is at least ccuFrequency above the certified height) attempts a
\* CCU again
C13_RejectedSubmissionIsRetried ==
    [][\A p \in Procs :
          /\ (hnd[p].pc = "su_postTransaction" /\ hnd'[p].pc = "done")
                => /\ lastSentCCM' = lastSentCCM
                   /\ sentCCUs' = sentCCUs
                   /\ ~ hnd'[p].cleaned
          /\ (/\ hnd[p].kind = "newBlock" /\ hnd[p].pc # "done" /\ hnd'[p].pc = "done"
              /\ hnd[p].prev.kind = "newBlock" /\ hnd[p].prev.rejected
              /\ hnd[p].blk.height - lastCertificate.height >= CcuFrequency
              /\ hnd'[p].ok)
                => hnd'[p].attempted]_vars

\* C14: unload never disconnects a client or closes the store while a
\* handler is in flight, no handler starts once unload has been called, and
\* no handler issues an operation on a disconnected client or on the closed
\* store
C14_UnloadWaitsForHandlers ==
    [][/\ unloading' # unloading => \A p \in Procs : ~ InFlight(p)
       /\ \A p \in Procs :
             /\ (hnd[p].pc = "idle" /\ hnd'[p].pc # "idle") => unloading = "no"
             /\ (InFlight(p) /\ hnd'[p] # hnd[p]) => Available(hnd[p].pc)]_vars

C16_SentNoncesStrictlyIncrease ==
    \A i, j \in 1..Len(sentCCUs) : i < j => sentCCUs[i].nonce < sentCCUs[j].nonce

\* C17: when the pass finds no certificate, a CCU is submitted only if it
\* carries CCMs: no transaction with an empty certificate and an empty CCM
\* list is ever posted
C17_NoEmptyPartialUpdate ==
    \A i \in 1..Len(sentCCUs) : sentCCUs[i].certHeight = 0 => sentCCUs[i].ccms # <<>>

\* the stored aggregate commit of height h, if any, has a non-empty signature
SelectorCandidate(h) ==
    /\ h > calc.lc.height /\ h <= calc.maxHeightCertified
    /\ \E i \in 1..Len(calc.commits) :
          calc.commits[i].height = h /\ calc.commits[i].sig # "empty"

\* the validator set of the header at height h is known
SelectorKnowsValidators(h) ==
    \E i \in 1..Len(calc.headers) :
        /\ calc.headers[i].height = h
        /\ calc.headers[i].validatorsHash \in HashesOf(calc.validators)

\* the heights of the aggregate commits the selector may return
SelectorVerifying ==
    {h \in 1..MaxSelectorHeight :
        /\ SelectorCandidate(h)
        /\ SelectorKnowsValidators(h)
        /\ \E i \in 1..Len(calc.commits) :
              calc.commits[i].height = h /\ calc.commits[i].sig = "good"}

SelectorGreatest == CHOOSE h \in SelectorVerifying : \A g \in SelectorVerifying : g <= h

\* C18 as stated: the selector returns the certificate of the aggregate
\* commit of the greatest height among those above C*.height, not above
\* maxHeightCertified, with a non-empty signature that verifies under the
\* validators of the header at that height; it returns none when there is no
\* such commit; a returned certificate is above C*.height
C18_SelectorReturnsGreatestVerifying ==
    (calc.fn = "selector" /\ calc.done) =>
        /\ SelectorVerifying # {} =>
              /\ calc.out.status = "found"
              /\ calc.out.certificate.height = SelectorGreatest
        /\ SelectorVerifying = {} => calc.out.status = "none"
        /\ calc.out.status = "found" => calc.out.certificate.height > calc.lc.height

\* C18 amended: what the selector returns is the certificate of the greatest
\* such commit, above C*.height, or none when there is no such commit; and
\* it returns nothing but fails exactly when some candidate (commit in the
\* height range with a non-empty signature), with no verifying commit above
\* it, has no stored header or no stored validators data
C18_SelectorReturnsGreatestOrFails ==
    (calc.fn = "selector" /\ calc.done) =>
        /\ calc.out.status = "found" =>
              /\ SelectorVerifying # {}
              /\ calc.out.certificate.height = SelectorGreatest
              /\ calc.out.certificate.height > calc.lc.height
        /\ calc.out.status = "none" => SelectorVerifying = {}
        /\ calc.out.status = "throw" <=>
              \E h \in 1..MaxSelectorHeight :
                  /\ SelectorCandidate(h) /\ ~ SelectorKnowsValidators(h)
                  /\ \A g \in SelectorVerifying : g < h

\* the selector passed over a commit that does not verify and one above
\* maxHeightCertified and returned a lower one
C18_SelectorSkippedToLowerCommit ==
    /\ calc.fn = "selector" /\ calc.done
    /\ calc.out.status = "found"
    /\ calc.out.certificate.height < calc.maxHeightCertified
    /\ calc.maxHeightCertified < MaxSelectorHeight
    /\ \A h \in 1..MaxSelectorHeight : SelectorKnowsValidators(h)
    /\ \E i \in 1..Len(calc.commits) :
          calc.commits[i].height = calc.maxHeightCertified /\ calc.commits[i].sig = "bad"
    /\ \E i \in 1..Len(calc.commits) :
          calc.commits[i].height = MaxSelectorHeight /\ calc.commits[i].sig = "good"

C20_CCUWithinMaxSize ==
    (calc.fn = "ccuSize" /\ calc.done) => calc.encoded <= calc.maxCCUSize

\* C21: the CCMs of every sent CCU are in strict (height, nonce) order, and
\* across the successive CCUs that were submitted no CCM is included twice
C21_CcmsInOrderAndNeverTwice ==
    /\ \A i \in 1..Len(sentCCUs) :
          \A a, b \in 1..Len(sentCCUs[i].ccms) :
              a < b => LET x == sentCCUs[i].ccms[a]
                           y == sentCCUs[i].ccms[b]
                       IN x.height < y.height \/ (x.height = y.height /\ x.nonce < y.nonce)
    /\ \A i, j \in 1..Len(sentCCUs) :
          i < j => \A a \in 1..Len(sentCCUs[i].ccms), b \in 1..Len(sentCCUs[j].ccms) :
                      sentCCUs[i].ccms[a] # sentCCUs[j].ccms[b]

\* the phases of load once a receiving chain client is being created
ClientPhases == {"createClient", "getOwnChainAccount", "getChainAccount", "loaded"}

\* C22: with neither receivingChainIPCPath nor receivingChainWsURL load
\* fails, creating no client and subscribing to nothing, so that no handler
\* ever starts; with exactly one of them the client uses that transport
C22_LoadNeedsATransport ==
    /\ (~ plugin.ipc /\ ~ plugin.ws) =>
          /\ plugin.phase \notin ClientPhases
          /\ plugin.phase \notin {"constructed", "initialized", "initFailed"}
                => plugin.phase = "loadFailed"
          /\ \A p \in Procs : hnd[p].pc = "idle"
    /\ (plugin.ipc /\ ~ plugin.ws /\ plugin.phase \in ClientPhases) => plugin.transport = "ipc"
    /\ (plugin.ws /\ ~ plugin.ipc /\ plugin.phase \in ClientPhases) => plugin.transport = "ws"

\* load has failed for want of a transport
C22_LoadFailedWithoutTransport ==
    ~ plugin.ipc /\ ~ plugin.ws /\ plugin.phase = "loadFailed"

\* C23: a connector whose key is missing or does not decrypt fails at init:
\* load never runs, nothing is subscribed, no handler starts and no CCU is
\* submitted
C23_NoKeyNeverRuns ==
    plugin.key # "ok" =>
        /\ plugin.phase \in {"constructed", "initFailed"}
        /\ \A p \in Procs : hnd[p].pc = "idle"
        /\ sentCCUs = <<>>

\* C24: every stored validators data record has its validators in blsKey
\* order and a validatorsHash that is the hash of its validators and its
\* certificateThreshold, whatever the order of the answer it was taken from
C24_StoredValidatorsSortedAndHashed ==
    calc.fn = "validatorsData" =>
        \A i \in 1..Len(calc.validatorsHashPreimage) :
            LET rec == calc.validatorsHashPreimage[i] IN
            /\ \A a, b \in 1..Len(rec.validators) :
                  a < b => rec.validators[a].blsKey < rec.validators[b].blsKey
            /\ ComputeValidatorsHash(rec.validators, rec.certificateThreshold) = rec.validatorsHash

\* C25: a failed newBlock handler does not stop the connector: the handler
\* of the next newBlock event saves its data, and when it ends without an
\* error with a height at least ccuFrequency above the certified height it
\* has run the CCU pass
C25_FailureIsRetriedOnNextBlock ==
    [][\A p \in Procs :
          (/\ hnd[p].kind = "newBlock" /\ hnd[p].pc # "done" /\ hnd'[p].pc = "done"
           /\ hnd[p].prev.kind = "newBlock" /\ ~ hnd[p].prev.ok
           /\ hnd'[p].ok)
          => /\ FindIndexByHeight(blockHeaders', hnd[p].blk.height) # 0
             /\ hnd[p].blk.height - lastCertificate'.height >= CcuFrequency => hnd'[p].pass]_vars

\* an updateStatus call has settled that asked to enable a good address,
\* with a valid request, the right password, a synced node and overwrite
\* not true
EnableWithoutOverwriteSettled ==
    /\ generator.call.pc = "done"
    /\ generator.call.req.valid /\ generator.call.req.passwordOk
    /\ generator.call.req.address \in GoodAddresses
    /\ generator.call.req.enable /\ ~ generator.call.req.overwrite
    /\ generator.call.req.synced

\* C26: such a call succeeds if and only if no info was stored for the
\* address and the request's three values are zero, or the stored info
\* equals the request's; a rejected one leaves the keypairs and the stored
\* info as they were
C26_EnableNeedsMatchingInfo ==
    EnableWithoutOverwriteSettled =>
        LET req == generator.call.req
            stored == generator.call.dbBefore[req.address]
        IN /\ generator.call.result = "ok" <=>
                 \/ stored = NoGeneratedInfo /\ IsZeroValueGeneratedInfo(req.info)
                 \/ stored = req.info
           /\ generator.call.result # "ok" =>
                 /\ generator.keypairs = generator.call.keypairsBefore
                 /\ generator.db = generator.call.dbBefore

\* a request that differs from the stored info of its address was rejected
C26_MismatchRejected ==
    /\ EnableWithoutOverwriteSettled
    /\ generator.call.dbBefore[generator.call.req.address] # NoGeneratedInfo
    /\ generator.call.dbBefore[generator.call.req.address] # generator.call.req.info
    /\ generator.call.result = "rejected"

\* C27: an address has a keypair if and only if its last successful
\* updateStatus enabled it; a successful call with enable = false leaves the
\* address without keypair, and a rejected call leaves the keypairs as they
\* were
C27_KeypairIffLastEnabled ==
    /\ \A a \in GoodAddresses : a \in generator.keypairs <=> generator.lastOk[a] = "enabled"
    /\ generator.keypairs \subseteq GoodAddresses
    /\ generator.call.pc = "done" =>
          /\ generator.call.result = "rejected"
                => generator.keypairs = generator.call.keypairsBefore
          /\ (generator.call.result = "ok" /\ ~ generator.call.req.enable)
                => generator.call.req.address \notin generator.keypairs

\* an enabled address has been disabled
C27_DisabledAfterEnabled ==
    /\ generator.call.pc = "done" /\ generator.call.result = "ok"
    /\ ~ generator.call.req.enable
    /\ generator.call.req.address \in generator.call.keypairsBefore

\* C28: when an updateStatus call with enable = true has succeeded, the
\* info stored for the address is the request's
C28_StoredInfoIsTheRequests ==
    (/\ generator.call.pc = "done" /\ generator.call.result = "ok"
     /\ generator.call.req.enable)
    => generator.db[generator.call.req.address] = generator.call.req.info

\* a call with overwrite = true has replaced a differing stored info
C28_OverwriteReplaced ==
    /\ generator.call.pc = "done" /\ generator.call.result = "ok"
    /\ generator.call.req.enable /\ generator.call.req.overwrite
    /\ generator.call.dbBefore[generator.call.req.address] # NoGeneratedInfo
    /\ generator.call.dbBefore[generator.call.req.address] # generator.call.req.info

\* the stored threshold of the validators with hash h, 0 when none is stored
StoredThreshold(validators, h) ==
    LET i == FindIndexByHash(validators, h)
    IN IF i = 0 THEN 0 ELSE validators[i].certificateThreshold

\* a pass that found no certificate and is submitting or has submitted its CCU
PartialPassSubmits(p) ==
    /\ hnd[p].kind = "newBlock"
    /\ hnd[p].searched /\ ~ hnd[p].certificate.found
    /\ \/ hnd[p].pc \in {"su_getAuthAccount", "su_getNodeInfo", "su_postTransaction"}
       \/ hnd[p].attempted

\* C29: every CCU submitted in a pass that found no new certificate has an
\* empty certificate, certificateThreshold 0 and an activeValidatorsUpdate
\* with no bls keys, no weights and an empty bitmap
C29_PartialCCUCarriesNoCertificate ==
    \A p \in Procs : PartialPassSubmits(p) =>
        /\ hnd[p].ccu.certHeight = 0 /\ hnd[p].ccu.certHash = 0
        /\ hnd[p].ccu.certificateThreshold = 0
        /\ hnd[p].ccu.activeValidatorsUpdate = EmptyValidatorsUpdate

C29_PartialCCUPosted ==
    \E p \in Procs :
        /\ PartialPassSubmits(p) /\ hnd[p].posted
        /\ hnd[p].ccu.certHeight = 0
        /\ hnd[p].ccu.certificateThreshold = 0
        /\ \E i \in 1..Len(sentCCUs) : sentCCUs[i] = hnd[p].ccu

\* the rule of the validators part of a CCU: hashes equal, then the update is
\* empty and the threshold 0; hashes differ, then the threshold is that of the
\* certificate's validators if it is not that of C*'s validators, else 0
ThresholdSignalsChange(params, emptyUpdate) ==
    LET new == StoredThreshold(calc.validatorsHashPreimage, calc.certificate.validatorsHash)
        prev == StoredThreshold(calc.validatorsHashPreimage,
                                calc.lastCertificate.validatorsHash)
    IN IF calc.certificate.validatorsHash = calc.lastCertificate.validatorsHash
       THEN /\ params.activeValidatorsUpdate = emptyUpdate
            /\ params.certificateThreshold = 0
       ELSE params.certificateThreshold = (IF new # prev THEN new ELSE 0)

\* the rule holds of the parameters _calculateCCUParams assembles
PluginThresholdSignalsChange ==
    (calc.fn = "ccuParams" /\ calc.done /\ ~ calc.thrown) =>
        ThresholdSignalsChange(calc.params, EmptyValidatorsUpdate)

PluginHashChangedThresholdKept ==
    /\ calc.fn = "ccuParams" /\ calc.done /\ ~ calc.thrown
    /\ calc.certificate.validatorsHash # calc.lastCertificate.validatorsHash
    /\ calc.params.certificateThreshold = 0
    /\ calc.params.activeValidatorsUpdate # EmptyValidatorsUpdate

\* C30: when the validatorsHash of the new certificate is that of C*, the
\* assembled CCU carries an empty activeValidatorsUpdate and
\* certificateThreshold 0; when the hashes differ, certificateThreshold is the
\* new threshold if it differs from the previous one and 0 if it is unchanged;
\* stated of the parameters of _calculateCCUParams and of those of
\* calculateCCUParams of the older connector
C30_ThresholdSignalsChange ==
    /\ PluginThresholdSignalsChange
    /\ (calc.fn = "ccuParams" /\ calc.olderDone /\ ~ calc.olderThrown) =>
           ThresholdSignalsChange(calc.olderParams, <<>>)

\* the CCMs the block's events carry for the receiving chain: those of the
\* interoperability ccmSendSuccess events and of the interoperability
\* ccmProcessed events whose result is FORWARDED
CcmsToRelay(events) ==
    {events[i].nonce : i \in {j \in 1..Len(events) :
        /\ events[j].module = "interoperability"
        /\ \/ events[j].name = "ccmSendSuccess"
           \/ events[j].name = "ccmProcessed" /\ events[j].result = "forwarded"}}

\* the records of the block's height hold exactly the CCMs to relay
GatheredCcmsAreThoseToRelay ==
    (calc.fn = "saveCcms" /\ calc.done) =>
        \A i \in 1..Len(calc.crossChainMessages) :
            {calc.crossChainMessages[i].ccms[k] : k \in 1..Len(calc.crossChainMessages[i].ccms)}
                = CcmsToRelay(calc.events)

\* C31: the CCMs gathered on newBlock are exactly those of the ccmSendSuccess
\* events and of the ccmProcessed events whose result is FORWARDED, and a
\* CCMsAtHeight record is written for the block if and only if that list is
\* not empty
C31_RecordIffCcmsGathered ==
    (calc.fn = "saveCcms" /\ calc.done) =>
        /\ GatheredCcmsAreThoseToRelay
        /\ (calc.crossChainMessages # <<>>) <=> (CcmsToRelay(calc.events) # {})

\* no two records of a list have the same height
OnePerHeight(list) ==
    \A i, j \in 1..Len(list) : i # j => list[i].height # list[j].height

\* no two validators data have the same validatorsHash
OnePerHash(list) ==
    \A i, j \in 1..Len(list) : i # j => list[i].validatorsHash # list[j].validatorsHash

\* the write of a newBlock handler's block headers leaves the header of its
\* block in the one slot of its height
HeaderSlotWritten(p) ==
    (hnd[p].pc = "nb_setBlockHeaders" /\ hnd'[p].pc = "nb_setAggregateCommits") =>
        /\ FindIndexByHeight(blockHeaders', hnd[p].blk.height) # 0
        /\ \A i \in 1..Len(blockHeaders') :
              blockHeaders'[i].height = hnd[p].blk.height =>
                  blockHeaders'[i] = HeaderOf(hnd[p].blk)

\* C32: in every reachable state, handlers interleaved or not, the store
\* holds at most one block header per height, at most one aggregate commit
\* per height and at most one validators data per validatorsHash, and a
\* newBlock for a stored height overwrites the header of that height
C32_OneRecordPerKey ==
    /\ [](OnePerHeight(blockHeaders) /\ OnePerHeight(aggregateCommits)
            /\ OnePerHash(validatorsHashPreimage))
    /\ [][\A p \in Procs : HeaderSlotWritten(p)]_vars

\* a newBlock handler has replaced the header stored at its height by another
C32_HeaderOverwritten ==
    \E p \in Procs :
        /\ hnd[p].kind = "newBlock" /\ hnd[p].pc = "nb_setAggregateCommits"
        /\ LET i == FindIndexByHeight(hnd[p].snap.blockHeaders, hnd[p].blk.height)
               j == FindIndexByHeight(blockHeaders, hnd[p].blk.height)
           IN /\ i # 0 /\ j # 0
              /\ hnd[p].snap.blockHeaders[i] # HeaderOf(hnd[p].blk)
              /\ blockHeaders[j] = HeaderOf(hnd[p].blk)
              /\ Len(blockHeaders) = Len(hnd[p].snap.blockHeaders)

\* C33: when no lastSentCCM is stored, the partial-only path and the
\* full-update path both pass (height = C*.height, nonce = 0) to the inbox
\* update builder as the point to gather from
C33_GatherStartsAtCertifiedHeight ==
    \A p \in Procs :
        (/\ hnd[p].kind = "newBlock"
         /\ hnd[p].pc \in {"pu_calculateInboxUpdate", "cp_calculateInboxUpdate"}
         /\ ~ lastSentCCM.set)
        => /\ hnd[p].lastSentCCM.height = lastCertificate.height
           /\ hnd[p].lastSentCCM.nonce = 0

\* the same of the partial-only path alone
PartialGatherStartsAtCertifiedHeight ==
    \A p \in Procs :
        (/\ hnd[p].kind = "newBlock" /\ hnd[p].pc = "pu_calculateInboxUpdate"
         /\ ~ lastSentCCM.set)
        => /\ hnd[p].lastSentCCM.height = lastCertificate.height
           /\ hnd[p].lastSentCCM.nonce = 0

\* handler p leaves the CCU pass because the certificate search or
\* _calculateCCUParams throws for a missing header or missing validators
\* data, not because an RPC call failed
PassAborted(p) ==
    /\ hnd[p].kind = "newBlock"
    /\ hnd[p].pc \in {"nb_getBFTHeights", "cp_getCrossChainMessages"}
    /\ hnd'[p].pc = "done"
    /\ nErrors' = nErrors

\* C34: when the selected certificate has no stored header at its height or
\* no stored validators data, the pass is aborted: no CCU is submitted,
\* _sentCCUs and lastSentCCM are unchanged and the block data this newBlock
\* saved is kept
C34_AbortKeepsSavedData ==
    [][\A p \in Procs : PassAborted(p) =>
          /\ ~ hnd'[p].attempted /\ ~ hnd'[p].posted /\ ~ hnd'[p].ok
          /\ sentCCUs' = sentCCUs /\ rc' = rc
          /\ lastSentCCM' = lastSentCCM
          /\ listVars' = listVars
          /\ FindIndexByHeight(blockHeaders', hnd[p].blk.height) # 0]_vars

\* _calculateCCUParams threw for a certificate that was found
C34_ParamsAborted ==
    \E p \in Procs :
        /\ hnd[p].kind = "newBlock" /\ hnd[p].pc = "done" /\ ~ hnd[p].ok
        /\ hnd[p].certificate.found /\ ~ hnd[p].attempted
        /\ hnd[p].ccu = NoCCU
        /\ nErrors = 0
        /\ FindIndexByHeight(blockHeaders, hnd[p].blk.height) # 0

\* C35: deleteBlock leaves the stored CCMsAtHeight records, lastSentCCM, C*
\* and the list of sent CCUs unchanged, whatever the header and the store
C35_DeleteBlockKeepsCcms ==
    [][\A p \in Procs :
          (hnd[p].kind = "deleteBlock" /\ hnd'[p] # hnd[p]) =>
              /\ crossChainMessages' = crossChainMessages
              /\ lastSentCCM' = lastSentCCM
              /\ lastCertificate' = lastCertificate
              /\ sentCCUs' = sentCCUs]_vars

\* a deleteBlock handler has removed the header of its block and the CCMs of
\* that height are still stored
C35_HeaderGoneCcmsKept ==
    \E p \in Procs :
        /\ hnd[p].kind = "deleteBlock" /\ hnd[p].pc = "done"
        /\ FindIndexByHeight(hnd[p].snap.blockHeaders, hnd[p].blk.height) # 0
        /\ FindIndexByHeight(blockHeaders, hnd[p].blk.height) = 0
        /\ FindIndexByHeight(crossChainMessages, hnd[p].blk.height) # 0
        /\ crossChainMessages = hnd[p].snap.crossChainMessages

\* the transactions the connector has built: those in _sentCCUs and those
\* handlers are about to post
BuiltTransactions ==
    {sentCCUs[i] : i \in 1..Len(sentCCUs)} \cup
    {hnd[p].ccu : p \in {q \in Procs : hnd[q].pc = "su_postTransaction"}}

\* C36: the command of a CCU is submitMainchainCCU exactly when the own chain
\* ID differs from the mainchain ID got by zeroing its non-network bytes
\* (the receiving chain is the mainchain), and submitSidechainCCU exactly
\* when the own chain is the mainchain
C36_CommandFollowsOwnChain ==
    \A tx \in BuiltTransactions :
        /\ tx.command = "submitMainchainCCU" <=> plugin.ownChainID[2] # 0
        /\ tx.command = "submitSidechainCCU" <=> plugin.ownChainID[2] = 0

\* a connector of the mainchain has sent a CCU
C36_MainchainSendsSidechainCCU ==
    /\ plugin.phase = "loaded" /\ plugin.ownChainID \in ChainIDs
    /\ plugin.ownChainID[2] = 0
    /\ \E i \in 1..Len(sentCCUs) : sentCCUs[i].command = "submitSidechainCCU"

\* every record of list is a record of list2, but for those of the height
\* the handler writes itself
KeepsOtherHeights(list, list2, height) ==
    \A i \in 1..Len(list) :
        list[i].height # height => \E j \in 1..Len(list2) : list2[j] = list[i]

\* the three writes that end _saveDataOnNewBlock, and the one of its CCMs
SaveDataWrites ==
    {"nb_setCrossChainMessages", "nb_setBlockHeaders", "nb_setAggregateCommits",
     "nb_setValidatorsHashPreimage"}

\* a write of _saveDataOnNewBlock loses no record another handler stored
SaveDataWriteLosesNothing(p) ==
    (hnd[p].pc \in SaveDataWrites /\ hnd'[p] # hnd[p]) =>
        /\ KeepsOtherHeights(blockHeaders, blockHeaders', hnd[p].blk.height)
        /\ KeepsOtherHeights(aggregateCommits, aggregateCommits',
                             hnd[p].blk.aggregateCommit.height)
        /\ KeepsOtherHeights(crossChainMessages, crossChainMessages', hnd[p].blk.height)
        /\ \A i \in 1..Len(validatorsHashPreimage) :
               \E j \in 1..Len(validatorsHashPreimage') :
                   validatorsHashPreimage'[j] = validatorsHashPreimage[i]

\* C37: no lost update: when handlers interleave at their suspension points,
\* no header, aggregate commit, validators data or CCMsAtHeight record that
\* a completed handler wrote is overwritten by the stale list another
\* handler read earlier
C37_NoLostUpdate == [][\A p \in Procs : SaveDataWriteLosesNothing(p)]_vars

\* C38: cleanup never discards CCMs that are not yet certified: it removes
\* no CCMsAtHeight record of a height above C*.height, and when no stored
\* record has the height C*.height it leaves the list as it is
C38_CleanupKeepsUncertifiedCcms ==
    [][\A p \in Procs :
          (hnd[p].pc = "cl_setCrossChainMessages" /\ hnd'[p] # hnd[p]) =>
              /\ \A i \in 1..Len(crossChainMessages) :
                     crossChainMessages[i].height > lastCertificate.height =>
                         \E j \in 1..Len(crossChainMessages') :
                             crossChainMessages'[j] = crossChainMessages[i]
              /\ FindIndexByHeight(crossChainMessages, lastCertificate.height) = 0 =>
                     crossChainMessages' = crossChainMessages]_vars

\* C39: whenever no handler is in progress, the validator set of every
\* stored block header is resolvable: for every stored header, saved while
\* the BFT parameters of its height had its validatorsHash, a validators
\* data with that validatorsHash is stored, after any newBlock, deleteBlock
\* and cleanup
C39_StoredHeadersResolvable ==
    AllIdle =>
        \A i \in 1..Len(blockHeaders) :
            (\E k \in 1..Len(chain) :
                 /\ HeaderOf(chain[k]) = blockHeaders[i]
                 /\ chain[k].bftHash = chain[k].validatorsHash)
            => FindIndexByHash(validatorsHashPreimage, blockHeaders[i].validatorsHash) # 0

\* a validation that has returned
Validated == calc.fn = "validateCertificate" /\ calc.pc = "done"

\* for a TERMINATED chain or a certificate height at or below the last
\* certified height the status is false
RejectedEarlyIsFalse ==
    (/\ Validated
     /\ \/ calc.chainStatus = "TERMINATED"
        \/ calc.certificateHeight <= calc.lastCertifiedHeight)
    => ~ calc.result.status

\* when the validation got as far as the signature, the result tells
\* whether it verified in hasValidBLSWeightedAggSig
SignatureFlagTellsVerification ==
    (/\ Validated /\ calc.chainStatus = "REGISTERED"
     /\ calc.certificateHeight > calc.lastCertifiedHeight
     /\ calc.result.livenessValidationResult.status)
    => (calc.result.hasValidBLSWeightedAggSig
           <=> (calc.headerHash \in calc.stored /\ calc.signatureVerifies))

\* C40: in the older connector's certificate validation, for a sending
\* chain neither TERMINATED nor ACTIVE, a certificate height above the last
\* certified height and a passing liveness check, the status is true if and
\* only if the weighted aggregate signature verifies under the stored
\* validators of the header; for a TERMINATED chain or a certificate height
\* at or below the last certified height the status is false
C40_StatusIffSignatureVerifies ==
    /\ (/\ Validated /\ calc.chainStatus \notin {"TERMINATED", "ACTIVE"}
        /\ calc.certificateHeight > calc.lastCertifiedHeight
        /\ calc.result.livenessValidationResult.status)
       => (calc.result.status
              <=> (calc.headerHash \in calc.stored /\ calc.signatureVerifies))
    /\ RejectedEarlyIsFalse

====
